---- MODULE Spec2Model ----
(***************************************************************************)
(* IonBridge / CP02 BLE controller and ESP32 gateway backend.              *)
(*                                                                         *)
(* Part I   models the BLE session of the web controller                   *)
(*          (ble_manager.py, protocol.py, app.py): the asyncio tasks that  *)
(*          share one BLEManager, the token manager, the frame codec and   *)
(*          the device on the other side of the link.                      *)
(* Part II  models the command correlation of the gateway backend          *)
(*          (mqtt_client.py): GatewayDataStore._command_responses and      *)
(*          MQTTClient.send_command.                                       *)
(*                                                                         *)
(* Scheduling.  asyncio is cooperative: a task runs from one await to the  *)
(* next without interruption.  The variable running names the task that    *)
(* holds the event loop; it is NoTask exactly when every task is parked    *)
(* at an await.  A step that resumes a task requires running = NoTask, a   *)
(* step inside a synchronous stretch requires running = p.                 *)
(***************************************************************************)
EXTENDS Integers, Sequences, FiniteSets, TLC

(***************************************************************************)
(* Bounds of the exploration.                                              *)
(***************************************************************************)
MaxWrites == 2      \* frames written to the device in one behaviour
MaxProbe == 1       \* highest enumeration candidate the exploration follows
MaxTime == 1        \* clock ticks
MaxOps == 3         \* client requests started in one behaviour
RefreshTicks == 0   \* refresh interval of the token manager, in clock ticks
MaxCmds == 2        \* gateway commands sent in one behaviour
MaxPayload == 2     \* longest payload given to build_message
MaxClock == 50      \* last second of the gateway clock
MaxInbound == 3     \* inbound gateway messages handled in one behaviour
MaxEvents == 3      \* update events broadcast in one behaviour
MaxReqs == 2        \* requests served in one behaviour
MaxHClock == 15     \* last tick of the history store's clock
MaxRows == 2        \* rows inserted into the history tables in one behaviour
MaxCleanups == 2    \* cleanup runs in one behaviour
TicksPerDay == 2    \* ticks of the history store's clock in one day
MaxMsgs == 3        \* cmd_response messages handled in one behaviour
MaxServed == 3      \* requests served by the dispatchers in one behaviour
MaxPorts == 2       \* port chunks in a port-statistics payload
MaxUpdates == 3     \* update_* calls on the gateway records in one behaviour
MaxPortId == 1      \* largest port_id in a ports message
MaxReconnects == 7  \* calls of auto_reconnect and connect in one behaviour
MaxDropAt == 2       \* last candidate during whose probe the link may drop
RenewTicks == 2     \* refresh interval of the renewal model, in clock ticks
MaxRotations == 1   \* times the device replaces its token in one behaviour
MaxJournal == 3     \* events pushed to the WebSocket clients in one behaviour
MaxTokenCalls == 3  \* requests that set a token in one behaviour
MaxBusCmds == 2     \* commands sent through the bus adapter in one behaviour
MaxIdWrites == 257  \* frames written on one session object in one behaviour
MaxLoopMsgs == 3    \* messages the dispatch loop handles in one behaviour
MaxBusDrops == 2    \* times the broker connection is lost in one behaviour

(***************************************************************************)
(* Program constants.                                                      *)
(***************************************************************************)
ASSOCIATE_DEVICE == 16
REBOOT_DEVICE == 17
GET_DEVICE_MODEL == 28
CONFIRM_OTA == 35
ACK == 2
TokenRange == 256
max_reconnect_attempts == 5
check_interval == 10            \* gateway_timeout_checker: asyncio.sleep(10)
gateway_timeout_seconds == 30   \* Settings.gateway_timeout_seconds
retention_days == 7             \* start_cleanup_task(retention_days=7)
ClockStep == 5                  \* seconds between two readings of the gateway clock
refresh_interval == RefreshTicks

None == -1
NoTask == "none"
NoDevice == "none"
Clients == {"c1", "c2"}
RefreshTask == "bg"
Procs == Clients \cup {RefreshTask}
Addresses == {"AA"}
StorageKeys == Addresses \cup {"unknown"}
DevTokens == {0, 1}
ManualTokens == {0}
Byte == 0..255

(***************************************************************************)
(* Part I.  Frame codec (protocol.py).  A frame is a sequence of bytes.    *)
(***************************************************************************)
RECURSIVE SumBytes(_)
SumBytes(bs) == IF bs = <<>> THEN 0 ELSE Head(bs) + SumBytes(Tail(bs))

\* calc_checksum without the & 0xFF.
calc_checksum_unmasked(header_bytes) ==
    SumBytes(SubSeq(header_bytes, 1, Len(header_bytes) - 1))

\* calc_checksum: sum of the header bytes but the last, low byte.
calc_checksum(header_bytes) ==
    SumBytes(SubSeq(header_bytes, 1, Len(header_bytes) - 1)) % 256

\* self.msg_id = (self.msg_id + 1) & 0xFF
next_msg_id_unmasked(msg_id) == msg_id + 1
next_msg_id(msg_id) == (msg_id + 1) % 256

\* build_message: 9-byte header (size always big-endian) followed by payload.
build_message(version, msg_id, service, sequence, flags, payload) ==
    LET payload_size == Len(payload)
        header == << version, msg_id, service % 256, sequence, flags,
                     (payload_size \div 65536) % 256,
                     (payload_size \div 256) % 256,
                     payload_size % 256,
                     0 >>
        checksum == calc_checksum(header)
    IN  SubSeq(header, 1, 8) \o <<checksum>> \o payload

\* struct.unpack('b', ...): a byte read as a signed 8-bit integer.
SignedByte(b) == IF b >= 128 THEN b - 256 ELSE b

\* parse_response: the parsed BLEResponse.  The checksum is read, never
\* compared; the payload is whatever follows the header, cut at size.
parse_response(data) ==
    IF Len(data) < 9
    THEN [version |-> 0, msg_id |-> 0, service |-> 0, sequence |-> 0,
          flags |-> 0, size |-> 0, checksum |-> 0, payload |-> <<>>,
          success |-> FALSE]
    ELSE LET version == data[1]
             size == IF version = 0
                     THEN data[6] * 65536 + data[7] * 256 + data[8]
                     ELSE data[6] + data[7] * 256 + data[8] * 65536
             last == IF 9 + size < Len(data) THEN 9 + size ELSE Len(data)
         IN  [version |-> version, msg_id |-> data[2],
              service |-> SignedByte(data[3]), sequence |-> data[4],
              flags |-> data[5], size |-> size, checksum |-> data[9],
              payload |-> SubSeq(data, 10, last), success |-> TRUE]

\* needs_token (protocol.py): the one service that carries no token.
needs_token(service) == service # ASSOCIATE_DEVICE

(***************************************************************************)
(* State of the BLE controller.                                            *)
(***************************************************************************)
VARIABLES
    \* BLEManager
    device,               \* self.device: address of the last device, or NoDevice
    _connected,           \* self._connected
    is_connected,         \* self.client is set and client.is_connected
    msg_id,               \* self.msg_id
    response_event,       \* self.response_event is set
    last_response,        \* self.last_response: <<>> (None) or <<BLEResponse>>
    _reconnect_attempts,  \* self._reconnect_attempts
    _auto_reconnect_enabled,
    \* TokenManager
    token,                \* self.token, None or 0..255
    last_refresh,         \* self.last_refresh, None or a clock value
    _acquiring,           \* self._acquiring
    storage,              \* token_storage.json: address -> token or None
    \* asyncio tasks
    running,              \* the task holding the event loop, or NoTask
    pc,                   \* where each task stands
    stack,                \* return labels of each task's pending calls
    loc,                  \* arguments, locals and return values of each task
    \* environment
    now,                  \* time.time()
    devToken,             \* the one token the device accepts
    air,                  \* notifications the device has sent, not yet delivered
    \* observation
    writes,               \* number of frames written so far
    ops                   \* number of client requests started

(***************************************************************************)
(* State of the gateway backend (Part II).                                 *)
(***************************************************************************)
VARIABLES
    _client,              \* MQTTClient._client is set
    _command_responses,   \* GatewayDataStore._command_responses: its cmd_ids
    cmd,                  \* every send_command call so far, indexed by cmd_id
    handled,              \* number of cmd_response messages handled so far
    msg                   \* the cmd_response message handled last

mqVars == << _client, _command_responses, cmd, handled, msg >>

(***************************************************************************)
(* State of Parts III to VII: the frame codec under test, the gateway      *)
(* records and the timeout scanner, the push channel, the API key and the  *)
(* history store.                                                          *)
(***************************************************************************)
VARIABLES
    \* Part III, codec
    built,                \* arguments of the last build_message call
    frame,                \* the bytes built, possibly damaged on the way
    damage,               \* what happened to the frame: none | flip | cut
    parsed,               \* <<>> or <<result of parse_response(frame)>>
    \* Part IV, gateway records (mqtt_client.py) and timeout scanner (app.py)
    gnow,                 \* datetime.now(), in seconds
    _gateways,            \* GatewayDataStore._gateways
    scan_at,              \* end of the scanner's current sleep
    received,             \* number of inbound messages handled
    \* Part V, push channel (app.py)
    broadcasts,           \* the broadcast_update tasks created so far
    inbox,                \* what each WebSocket client has been sent
    \* Part VI, API key (app.py)
    api_key,              \* settings.api_key
    requests,             \* the requests served so far, with their outcome
    \* Part VII, history store (history_store.py)
    hclock,               \* the clock of the history store's host, in ticks
    port_history,         \* rows of table port_history
    gateway_events,       \* rows of table gateway_events
    next_id,              \* AUTOINCREMENT
    stats,                \* <<>> or <<result of the last get_power_stats>>
    cleanups              \* number of cleanup_old_data runs

codecVars == << built, frame, damage, parsed >>
onVars == << gnow, _gateways, scan_at, received >>
pushVars == << broadcasts, inbox >>
authVars == << api_key, requests >>
histVars == << hclock, port_history, gateway_events, next_id, stats, cleanups >>

(***************************************************************************)
(* State of Part VIII: the request dispatchers of the two web apps.        *)
(***************************************************************************)
VARIABLES
    ws_connected,         \* ble_manager.connected, as the handlers see it
    ws_token,             \* ble_manager.token, None or 0..255
    ws_frames,            \* services of the command frames written so far
    served                \* the requests served so far, with their replies

dispVars == << ws_connected, ws_token, ws_frames, served >>

(***************************************************************************)
(* State of Part IX: the payload parsers under test (protocol.py).         *)
(***************************************************************************)
VARIABLES
    called,               \* <<>> or <<the call made: function and arguments>>
    returned              \* what that call returned

parseVars == << called, returned >>

(***************************************************************************)
(* State of Part X: the gateway records in full (mqtt_client.py).          *)
(***************************************************************************)
VARIABLES
    gw_store,             \* GatewayDataStore._gateways with every field
    notified,             \* the events passed to _notify_subscribers
    uclock,               \* datetime.now(), advancing with every call
    upd                   \* <<>> or <<the last update call and the record
                          \*   it found>>

storeVars == << gw_store, notified, uclock, upd >>

(***************************************************************************)
(* State of Part XI: the reconnect counter of BLEManager, call by call.    *)
(***************************************************************************)
VARIABLES
    rc_attempts,          \* self._reconnect_attempts
    rc_enabled,           \* self._auto_reconnect_enabled
    rc_device,            \* self.device is set
    rc_linked,            \* self._connected
    rc_stored,            \* the token storage holds a token for the device
    rc_pc,                \* where each caller of auto_reconnect stands
    rc_failed,            \* failed connection attempts of auto_reconnect
                          \*   since the last connection that succeeded
    rc_calls,             \* calls of auto_reconnect and connect so far
    rc_last               \* the last step: function, dial and return value

reconVars == << rc_attempts, rc_enabled, rc_device, rc_linked, rc_stored,
                rc_pc, rc_failed, rc_calls, rc_last >>

(***************************************************************************)
(* State of Part XII: one run of bruteforce_token from its first probe to  *)
(* its return.                                                             *)
(***************************************************************************)
VARIABLES
    bt_pc,                \* where the enumeration stands: idle | loop | check | sleep
    bt_candidate,         \* the loop variable token of bruteforce_token
    bt_response,          \* what send_command returned for the last probe
    bt_probes,            \* the token bytes of the probe frames written, in order
    bt_token,             \* token_manager.token
    bt_acquiring,         \* token_manager._acquiring
    bt_storage,           \* the token the storage file holds for the device
    bt_linked,            \* self.connected
    bt_device,            \* the token the device accepts, None when it accepts none
    bt_returned           \* <<>> or <<what the last call of bruteforce_token returned>>

bruteVars == << bt_pc, bt_candidate, bt_response, bt_probes, bt_token,
                bt_acquiring, bt_storage, bt_linked, bt_device, bt_returned >>

(***************************************************************************)
(* State of Part XIII: the token manager over an unbounded run of          *)
(* commands.                                                               *)
(***************************************************************************)
VARIABLES
    mgr,                  \* the BLEManager and its TokenManager, field by field
    lock,                 \* the token the device accepts
    rotations,            \* how often the device has replaced its token
    enumerated            \* whether the last step ran a bruteforce_token

renewVars == << mgr, lock, rotations, enumerated >>

(***************************************************************************)
(* State of Part XIV: the events of the gateway backend, pushed and        *)
(* recorded.                                                               *)
(***************************************************************************)
VARIABLES
    jr_gateways,          \* per gateway: known, connected, heartbeat timed out
    jr_pushed,            \* the events given to broadcast_update, in order
    jr_rows               \* the rows of table gateway_events, in order

journalVars == << jr_gateways, jr_pushed, jr_rows >>

(***************************************************************************)
(* State of Part XV: the token and the token store, path by path.          *)
(***************************************************************************)
VARIABLES
    tp_token,             \* token_manager.token
    tp_stored,            \* the token the storage file holds for the device
    tp_linked,            \* ble_manager.connected
    tp_calls              \* the requests served so far, with their outcome

pathVars == << tp_token, tp_stored, tp_linked, tp_calls >>

(***************************************************************************)
(* State of Part XVI: the bus adapter and its broker connection.           *)
(***************************************************************************)
VARIABLES
    bus_pc,               \* MQTTClient.start: idle | connecting | listening |
                          \*   sleeping | ended
    bus_running,          \* self._running
    bus_client,           \* self._client is not None
    bus_broker,           \* the broker connection is established
    bus_pending,          \* data_store._command_responses: its cmd_ids
    bus_cmds,             \* the send_command calls so far, with their outcome
    bus_drops             \* how often the broker connection was lost

busVars == << bus_pc, bus_running, bus_client, bus_broker, bus_pending, bus_cmds,
              bus_drops >>

(***************************************************************************)
(* State of Part XVII: the dispatch loop of the bus adapter.               *)
(***************************************************************************)
VARIABLES
    lp_gateways,          \* data_store._gateways, the fields the handlers set
    lp_events,            \* the events given to the subscribers, in order
    lp_handled,           \* messages the loop has taken from client.messages
    lp_last,              \* the last message handled, << >> before the first
    lp_clock              \* datetime.now()

loopVars == << lp_gateways, lp_events, lp_handled, lp_last, lp_clock >>

(***************************************************************************)
(* State of Part XVIII: the message ID of the session.                     *)
(***************************************************************************)
VARIABLES
    id_msg_id,            \* BLEManager.msg_id
    id_linked,            \* BLEManager.connected
    id_writes,            \* write_gatt_char calls so far
    id_written,           \* the last frame written, << >> before the first
    id_last               \* the last send_command call, << >> before the first

idVars == << id_msg_id, id_linked, id_writes, id_written, id_last >>

moreVars == << dispVars, parseVars, storeVars, reconVars, bruteVars, renewVars,
               journalVars, pathVars, busVars,
             loopVars, idVars >>
extVars == << codecVars, onVars, pushVars, authVars, histVars, moreVars >>

bleVars == << device, _connected, is_connected, msg_id, response_event,
              last_response, _reconnect_attempts, _auto_reconnect_enabled,
              token, last_refresh, _acquiring, storage, running, pc, stack,
              loc, now, devToken, air, writes, ops >>

\* BLEManager.connected (property)
connected == _connected /\ is_connected

NoLoc == [ op |-> "none",          \* the handler the client is serving
           nc |-> FALSE,           \* the handler started on a session not connected
           service |-> 0,          \* execute(service, ...)
           address |-> NoDevice,   \* connect(address)
           mode |-> "none",        \* handle_connect: manual | bruteforce | ensure
           mtoken |-> None,        \* params["token"]
           sc_service |-> 0,       \* send_command(service, ...)
           sc_payload |-> <<>>,    \* send_command(..., payload)
           bf_token |-> None,      \* bruteforce_token: the loop variable token
           wake |-> None,          \* _auto_refresh_loop: end of the current sleep
           en_pre |-> "none",      \* ensure_token: what it found on entry
           sent |-> None,          \* send_command: msg_id of the frame it wrote
           probe |-> FALSE,        \* ensure_token went through the enumeration
           rtoken |-> None,        \* returned Optional[int]
           rresp |-> <<>>,         \* returned Optional[BLEResponse]
           rbool |-> FALSE ]       \* returned bool


BleInit ==
    /\ device = NoDevice
    /\ _connected = FALSE
    /\ is_connected = FALSE
    /\ msg_id = 0
    /\ response_event = FALSE
    /\ last_response = <<>>
    /\ _reconnect_attempts = 0
    /\ _auto_reconnect_enabled = TRUE
    /\ token = None
    /\ last_refresh = None
    /\ _acquiring = FALSE
    /\ storage = [k \in StorageKeys |-> None]
    /\ running = NoTask
    /\ pc = [p \in Procs |-> IF p \in Clients THEN "idle" ELSE "done"]
    /\ stack = [p \in Procs |-> <<>>]
    /\ loc = [p \in Procs |-> NoLoc]
    /\ now = 0
    /\ devToken \in DevTokens
    /\ air = <<>>
    /\ writes = 0
    /\ ops = 0

\* Part II starts from MqInit, below; Part I leaves it alone.
notBle == << mqVars, extVars >>

(***************************************************************************)
(* TokenManager (ble_manager.py).                                          *)
(***************************************************************************)
\* should_refresh without the interval test: a known token is always due.
should_refresh_always == ~_acquiring

\* TokenManager.should_refresh
should_refresh ==
    IF _acquiring THEN FALSE
    ELSE IF token = None THEN TRUE
    ELSE IF last_refresh = None THEN TRUE
    ELSE (now - last_refresh) > refresh_interval

\* TokenManager.set_token: the save_to_storage argument is ignored.
set_token(t) ==
    /\ token' = t
    /\ last_refresh' = now
    /\ _acquiring' = FALSE

\* TokenManager.invalidate
invalidate ==
    /\ token' = None
    /\ last_refresh' = None
    /\ _acquiring' = FALSE

\* BLEManager._save_token_to_storage: keyed by the device address.
StorageKey == IF device # NoDevice THEN device ELSE "unknown"
save_token_to_storage(t) == storage' = [storage EXCEPT ![StorageKey] = t]

\* load_token_from_storage that never finds the address.
load_token_from_storage_missing(device_address) == None

\* BLEManager.load_token_from_storage
load_token_from_storage(device_address) == storage[device_address]

(***************************************************************************)
(* Calls and returns of a task.                                            *)
(***************************************************************************)
Goto(p, label) == pc' = [pc EXCEPT ![p] = label] /\ UNCHANGED stack
Call(p, entry, ret) ==
    /\ pc' = [pc EXCEPT ![p] = entry]
    /\ stack' = [stack EXCEPT ![p] = <<ret>> \o @]
Return(p) ==
    /\ pc' = [pc EXCEPT ![p] = Head(stack[p])]
    /\ stack' = [stack EXCEPT ![p] = Tail(@)]

linkVars == << device, _connected, is_connected >>
sessVars == << msg_id, response_event, last_response >>
tokVars == << token, last_refresh, _acquiring >>
recVars == << _reconnect_attempts, _auto_reconnect_enabled >>
envVars == << now, devToken >>
obsVars == << writes, ops >>

(***************************************************************************)
(* The device.  It answers a frame it accepts with a response frame: the   *)
(* request's msg_id, the service with the response bit (negative when read *)
(* as a signed byte) and a payload.  A frame with a wrong token is ignored *)
(* or answered with an empty response.                                     *)
(***************************************************************************)
DeviceAccepts(message) ==
    \/ message[3] = ASSOCIATE_DEVICE
    \/ Len(message) >= 10 /\ message[10] = devToken

DeviceReplies(message) ==
    IF DeviceAccepts(message)
    THEN { << build_message(0, message[2], message[3] + 128, 0, ACK, <<1>>) >> }
    ELSE { <<>>, << build_message(0, message[2], message[3] + 128, 0, ACK, <<>>) >> }

(***************************************************************************)
(* BLEManager.send_command                                                 *)
(***************************************************************************)
\* Up to the await of write_gatt_char: the connection check, the new
\* msg_id, the frame, the reset of the response slot and the write.
SendCommand(p) ==
    /\ pc[p] = "sc_entry" /\ running = p
    /\ IF ~connected
       THEN /\ loc' = [loc EXCEPT ![p].rresp = <<>>, ![p].sent = None]
            /\ Return(p)
            /\ UNCHANGED << sessVars, air, writes, running >>
       ELSE /\ writes < MaxWrites
            /\ LET id == next_msg_id(msg_id)
                   message == build_message(0, id, loc[p].sc_service, 0, ACK,
                                            loc[p].sc_payload)
               IN  /\ msg_id' = id
                   /\ response_event' = FALSE
                   /\ last_response' = <<>>
                   /\ writes' = writes + 1
                   /\ \E reply \in DeviceReplies(message) : air' = air \o reply
                   /\ loc' = [loc EXCEPT ![p].sent = id]
            /\ Goto(p, "sc_wait")
            /\ running' = NoTask
    /\ UNCHANGED << linkVars, tokVars, recVars, storage, envVars, ops, notBle >>

\* BLEManager._notification_handler: the callback of the BLE client.
NotificationHandler ==
    /\ running = NoTask /\ is_connected /\ air # <<>>
    /\ last_response' = << parse_response(Head(air)) >>
    /\ response_event' = TRUE
    /\ air' = Tail(air)
    /\ pc' = [p \in Procs |-> IF pc[p] = "sc_wait" THEN "sc_ready" ELSE pc[p]]
    /\ UNCHANGED << linkVars, msg_id, tokVars, recVars, storage, running, stack,
                    loc, envVars, obsVars, notBle >>

\* response_event.wait() has returned: return self.last_response.
SendCommandResume(p) ==
    /\ pc[p] = "sc_ready" /\ running = NoTask
    /\ loc' = [loc EXCEPT ![p].rresp = last_response]
    /\ Return(p)
    /\ running' = p
    /\ UNCHANGED << linkVars, sessVars, tokVars, recVars, storage, envVars, air,
                    obsVars, notBle >>

\* asyncio.TimeoutError: return None.
SendCommandTimeout(p) ==
    /\ pc[p] = "sc_wait" /\ running = NoTask
    /\ loc' = [loc EXCEPT ![p].rresp = <<>>]
    /\ Return(p)
    /\ running' = p
    /\ UNCHANGED << linkVars, sessVars, tokVars, recVars, storage, envVars, air,
                    obsVars, notBle >>

(***************************************************************************)
(* BLEManager.bruteforce_token (every caller saves to storage)             *)
(***************************************************************************)
BruteforceToken(p) ==
    /\ pc[p] = "bf_entry" /\ running = p
    /\ IF _acquiring
       THEN /\ loc' = [loc EXCEPT ![p].rtoken = token]
            /\ Return(p)
            /\ UNCHANGED _acquiring
       ELSE /\ _acquiring' = TRUE
            /\ loc' = [loc EXCEPT ![p].bf_token = 0]
            /\ Goto(p, "bf_loop")
    /\ UNCHANGED << linkVars, sessVars, token, last_refresh, recVars, storage,
                    running, envVars, air, obsVars, notBle >>

\* for token in range(256): ... send_command(test_service, bytes([token]))
BruteforceLoop(p) ==
    /\ pc[p] = "bf_loop" /\ running = p
    /\ IF loc[p].bf_token >= TokenRange
       THEN /\ _acquiring' = FALSE
            /\ loc' = [loc EXCEPT ![p].rtoken = None, ![p].bf_token = None]
            /\ Return(p)
       ELSE /\ loc' = [loc EXCEPT ![p].sc_service = GET_DEVICE_MODEL,
                                  ![p].sc_payload = << loc[p].bf_token >>]
            /\ Call(p, "sc_entry", "bf_check")
            /\ UNCHANGED _acquiring
    /\ UNCHANGED << linkVars, sessVars, token, last_refresh, recVars, storage,
                    running, envVars, air, obsVars, notBle >>

\* if response and response.service < 0 and response.size > 0: ...
BruteforceCheck(p) ==
    /\ pc[p] = "bf_check" /\ running = p
    /\ LET response == loc[p].rresp IN
       IF response # <<>> /\ response[1].service < 0 /\ response[1].size > 0
       THEN /\ set_token(loc[p].bf_token)
            /\ save_token_to_storage(loc[p].bf_token)
            /\ loc' = [loc EXCEPT ![p].rtoken = loc[p].bf_token,
                                  ![p].bf_token = None, ![p].rresp = <<>>]
            /\ Return(p)
            /\ UNCHANGED running
       ELSE /\ loc' = [loc EXCEPT ![p].rresp = <<>>]
            /\ Goto(p, "bf_sleep")
            /\ running' = NoTask
            /\ UNCHANGED << tokVars, storage >>
    /\ UNCHANGED << linkVars, sessVars, recVars, envVars, air, obsVars, notBle >>

\* await asyncio.sleep(0.02) is over: the next candidate.
BruteforceNext(p) ==
    /\ pc[p] = "bf_sleep" /\ running = NoTask
    /\ loc[p].bf_token < MaxProbe
    /\ loc' = [loc EXCEPT ![p].bf_token = @ + 1]
    /\ Goto(p, "bf_loop")
    /\ running' = p
    /\ UNCHANGED << linkVars, sessVars, tokVars, recVars, storage, envVars, air,
                    obsVars, notBle >>

(***************************************************************************)
(* BLEManager.ensure_token                                                 *)
(***************************************************************************)
EnsureToken(p) ==
    /\ pc[p] = "en_entry" /\ running = p
    /\ LET pre == IF token # None
                  THEN (IF should_refresh THEN "stale" ELSE "fresh")
                  ELSE IF device # NoDevice /\ storage[device] # None THEN "stored"
                  ELSE IF connected THEN "connected" ELSE "offline"
       IN
       IF token # None /\ ~should_refresh
       THEN /\ loc' = [loc EXCEPT ![p].rtoken = token, ![p].probe = FALSE,
                                  ![p].en_pre = pre]
            /\ Return(p)
            /\ UNCHANGED tokVars
       ELSE IF device # NoDevice /\ load_token_from_storage(device) # None
       THEN /\ set_token(load_token_from_storage(device))
            /\ loc' = [loc EXCEPT ![p].rtoken = load_token_from_storage(device),
                                  ![p].probe = FALSE, ![p].en_pre = pre]
            /\ Return(p)
       ELSE IF should_refresh
       THEN /\ loc' = [loc EXCEPT ![p].probe = TRUE, ![p].en_pre = pre]
            /\ Call(p, "bf_entry", "en_return")
            /\ UNCHANGED tokVars
       ELSE /\ loc' = [loc EXCEPT ![p].rtoken = token, ![p].probe = FALSE,
                                  ![p].en_pre = pre]
            /\ Return(p)
            /\ UNCHANGED tokVars
    /\ UNCHANGED << linkVars, sessVars, recVars, storage, running, envVars, air,
                    obsVars, notBle >>

\* return self.token_manager.token, after bruteforce_token
EnsureTokenReturn(p) ==
    /\ pc[p] = "en_return" /\ running = p
    /\ loc' = [loc EXCEPT ![p].rtoken = token]
    /\ Return(p)
    /\ UNCHANGED << linkVars, sessVars, tokVars, recVars, storage, running,
                    envVars, air, obsVars, notBle >>

(***************************************************************************)
(* BLEManager.execute                                                      *)
(***************************************************************************)
\* The needs_token and auto_reconnect arguments: no handler passes them,
\* so both have their default, True, for every service.
execute_needs_token(service) == TRUE
execute_auto_reconnect(service) == TRUE

Execute(p) ==
    /\ pc[p] = "ex_entry" /\ running = p
    /\ IF execute_needs_token(loc[p].service)
       THEN /\ Call(p, "en_entry", "ex_token")
            /\ UNCHANGED loc
       ELSE /\ loc' = [loc EXCEPT ![p].sc_service = loc[p].service,
                                  ![p].sc_payload = <<>>]
            /\ Call(p, "sc_entry", "ex_sent")
    /\ UNCHANGED << linkVars, sessVars, tokVars, recVars, storage, running,
                    envVars, air, obsVars, notBle >>

\* token = await self.ensure_token(); payload = bytes([token]) + extra_payload;
\* first = TRUE before the reconnect, FALSE for the retry.
ExecuteToken(p, first) ==
    /\ pc[p] = (IF first THEN "ex_token" ELSE "ex_retoken") /\ running = p
    /\ IF loc[p].rtoken = None
       THEN /\ loc' = [loc EXCEPT ![p].rresp = <<>>]
            /\ Return(p)
       ELSE /\ loc' = [loc EXCEPT ![p].sc_service = loc[p].service,
                                  ![p].sc_payload = << loc[p].rtoken >>]
            /\ Call(p, "sc_entry", IF first THEN "ex_sent" ELSE "ex_resent")
    /\ UNCHANGED << linkVars, sessVars, tokVars, recVars, storage, running,
                    envVars, air, obsVars, notBle >>

\* if auto_reconnect and response is None and not self.token_manager._acquiring
ExecuteSent(p) ==
    /\ pc[p] = "ex_sent" /\ running = p
    /\ IF execute_auto_reconnect(loc[p].service) /\ loc[p].rresp = <<>> /\ ~_acquiring
       THEN Call(p, "rc_entry", "ex_reconnected")
       ELSE Return(p)
    /\ UNCHANGED << linkVars, sessVars, tokVars, recVars, storage, running, loc,
                    envVars, air, obsVars, notBle >>

\* if await self.auto_reconnect(): retry; else return response (None)
ExecuteReconnected(p) ==
    /\ pc[p] = "ex_reconnected" /\ running = p
    /\ IF loc[p].rbool
       THEN IF execute_needs_token(loc[p].service)
            THEN /\ Call(p, "en_entry", "ex_retoken")
                 /\ UNCHANGED loc
            ELSE /\ loc' = [loc EXCEPT ![p].sc_service = loc[p].service,
                                       ![p].sc_payload = <<>>]
                 /\ Call(p, "sc_entry", "ex_resent")
       ELSE /\ loc' = [loc EXCEPT ![p].rresp = <<>>]
            /\ Return(p)
    /\ UNCHANGED << linkVars, sessVars, tokVars, recVars, storage, running,
                    envVars, air, obsVars, notBle >>

\* return response, after the retry
ExecuteResent(p) ==
    /\ pc[p] = "ex_resent" /\ running = p
    /\ Return(p)
    /\ UNCHANGED << linkVars, sessVars, tokVars, recVars, storage, running, loc,
                    envVars, air, obsVars, notBle >>

(***************************************************************************)
(* BLEManager.auto_reconnect                                               *)
(***************************************************************************)
AutoReconnect(p) ==
    /\ pc[p] = "rc_entry" /\ running = p
    /\ IF ~_auto_reconnect_enabled \/ _reconnect_attempts >= max_reconnect_attempts
       THEN /\ loc' = [loc EXCEPT ![p].rbool = FALSE]
            /\ Return(p)
            /\ UNCHANGED _reconnect_attempts
       ELSE /\ _reconnect_attempts' = _reconnect_attempts + 1
            /\ Call(p, "dc_entry", "rc_disconnected")
            /\ UNCHANGED loc
    /\ UNCHANGED << linkVars, sessVars, tokVars, _auto_reconnect_enabled, storage,
                    running, envVars, air, obsVars, notBle >>

\* await asyncio.sleep(1)
AutoReconnectSleep(p) ==
    /\ pc[p] = "rc_disconnected" /\ running = p
    /\ Goto(p, "rc_sleep")
    /\ running' = NoTask
    /\ UNCHANGED << linkVars, sessVars, tokVars, recVars, storage, loc, envVars,
                    air, obsVars, notBle >>

\* if self.device: success = await self.connect(self.device.address)
AutoReconnectConnect(p) ==
    /\ pc[p] = "rc_sleep" /\ running = NoTask
    /\ IF device # NoDevice
       THEN /\ loc' = [loc EXCEPT ![p].address = device]
            /\ Call(p, "cn_scan", "rc_connected")
            /\ UNCHANGED running
       ELSE /\ loc' = [loc EXCEPT ![p].rbool = FALSE]
            /\ Return(p)
            /\ running' = p
    /\ UNCHANGED << linkVars, sessVars, tokVars, recVars, storage, envVars, air,
                    obsVars, notBle >>

\* the stored token, or a new enumeration
AutoReconnectConnected(p) ==
    /\ pc[p] = "rc_connected" /\ running = p
    /\ IF loc[p].rbool
       THEN IF load_token_from_storage(device) # None
            THEN /\ set_token(load_token_from_storage(device))
                 /\ _reconnect_attempts' = 0
                 /\ loc' = [loc EXCEPT ![p].rbool = TRUE]
                 /\ Return(p)
            ELSE /\ Call(p, "bf_entry", "rc_token")
                 /\ UNCHANGED << tokVars, _reconnect_attempts, loc >>
       ELSE /\ loc' = [loc EXCEPT ![p].rbool = FALSE]
            /\ Return(p)
            /\ UNCHANGED << tokVars, _reconnect_attempts >>
    /\ UNCHANGED << linkVars, sessVars, _auto_reconnect_enabled, storage, running,
                    envVars, air, obsVars, notBle >>

\* if token: (a token of 0 is falsy)
AutoReconnectToken(p) ==
    /\ pc[p] = "rc_token" /\ running = p
    /\ IF loc[p].rtoken # None /\ loc[p].rtoken # 0
       THEN /\ _reconnect_attempts' = 0
            /\ loc' = [loc EXCEPT ![p].rbool = TRUE]
       ELSE /\ loc' = [loc EXCEPT ![p].rbool = FALSE]
            /\ UNCHANGED _reconnect_attempts
    /\ Return(p)
    /\ UNCHANGED << linkVars, sessVars, tokVars, _auto_reconnect_enabled, storage,
                    running, envVars, air, obsVars, notBle >>

(***************************************************************************)
(* BLEManager.connect and BLEManager.disconnect                            *)
(***************************************************************************)
\* The scan and the connection are over.  The device was not found
\* (nothing changes), or client.connect() raised, or the session is up
\* and start_auto_refresh_task has created the refresh task if none runs.
Connect(p) ==
    /\ pc[p] = "cn_scan" /\ running = NoTask
    /\ \E outcome \in {"notfound", "error", "ok"} :
         CASE outcome = "notfound" ->
                /\ loc' = [loc EXCEPT ![p].rbool = FALSE]
                /\ Return(p)
                /\ UNCHANGED << linkVars, _reconnect_attempts, air >>
           [] outcome = "error" ->
                /\ device' = loc[p].address
                /\ is_connected' = FALSE
                /\ _connected' = FALSE
                /\ air' = <<>>
                /\ loc' = [loc EXCEPT ![p].rbool = FALSE]
                /\ Return(p)
                /\ UNCHANGED _reconnect_attempts
           [] outcome = "ok" ->
                /\ device' = loc[p].address
                /\ is_connected' = TRUE
                /\ _connected' = TRUE
                /\ _reconnect_attempts' = 0
                /\ air' = <<>>
                /\ loc' = [loc EXCEPT ![p].rbool = TRUE]
                /\ pc' = [pc EXCEPT ![p] = Head(stack[p]),
                                    ![RefreshTask] = IF @ = "done" THEN "rf_start" ELSE @]
                /\ stack' = [stack EXCEPT ![p] = Tail(@)]
    /\ running' = p
    /\ UNCHANGED << sessVars, tokVars, _auto_reconnect_enabled, storage, envVars,
                    obsVars, notBle >>

\* The reset at the end of disconnect.
DisconnectReset(p) ==
    /\ _connected' = FALSE
    /\ invalidate
    /\ loc' = [loc EXCEPT ![p].rbool = TRUE]

\* stop_auto_refresh_task cancels the refresh task (the finally of an
\* enumeration it was in clears the guard), then the client is disconnected.
\* Without a task to await and without a connection nothing suspends.
Disconnect(p) ==
    /\ pc[p] = "dc_entry" /\ running = p
    /\ LET alive == pc[RefreshTask] # "done"
           inTry == pc[RefreshTask] \in {"sc_wait", "sc_ready", "bf_sleep"}
       IN
       IF alive \/ is_connected
       THEN /\ pc' = [pc EXCEPT ![RefreshTask] = "done", ![p] = "dc_wait"]
            /\ stack' = [stack EXCEPT ![RefreshTask] = <<>>]
            /\ loc' = [loc EXCEPT ![RefreshTask] = NoLoc]
            /\ _acquiring' = IF inTry THEN FALSE ELSE _acquiring
            /\ is_connected' = FALSE
            /\ air' = <<>>
            /\ running' = NoTask
            /\ UNCHANGED << device, _connected, token, last_refresh >>
       ELSE /\ DisconnectReset(p)
            /\ Return(p)
            /\ UNCHANGED << device, is_connected, air, running >>
    /\ UNCHANGED << sessVars, recVars, storage, envVars, obsVars, notBle >>

DisconnectDone(p) ==
    /\ pc[p] = "dc_wait" /\ running = NoTask
    /\ DisconnectReset(p)
    /\ Return(p)
    /\ running' = p
    /\ UNCHANGED << device, is_connected, sessVars, recVars, storage, envVars, air,
                    obsVars, notBle >>

(***************************************************************************)
(* TokenManager._auto_refresh_loop (auto_refresh is left enabled)          *)
(***************************************************************************)
auto_refresh == TRUE

\* while self.auto_refresh: await asyncio.sleep(self.refresh_interval)
AutoRefreshLoop(p) ==
    /\ p = RefreshTask
    /\ \/ pc[p] = "rf_start" /\ running = NoTask
       \/ pc[p] = "rf_loop" /\ running = p
    /\ IF auto_refresh
       THEN /\ pc' = [pc EXCEPT ![p] = "rf_sleep"]
            /\ loc' = [loc EXCEPT ![p] = [NoLoc EXCEPT !.op = "auto_refresh",
                                                       !.wake = now + refresh_interval]]
       ELSE /\ pc' = [pc EXCEPT ![p] = "done"]
            /\ loc' = [loc EXCEPT ![p] = NoLoc]
    /\ running' = NoTask
    /\ UNCHANGED << linkVars, sessVars, tokVars, recVars, storage, stack, envVars,
                    air, obsVars, notBle >>

\* the sleep is over: if self.should_refresh() and ... connected: bruteforce
AutoRefreshWake(p) ==
    /\ p = RefreshTask
    /\ pc[p] = "rf_sleep" /\ running = NoTask
    /\ now >= loc[p].wake
    /\ IF should_refresh /\ connected
       THEN Call(p, "bf_entry", "rf_loop")
       ELSE Goto(p, "rf_loop")
    /\ running' = p
    /\ UNCHANGED << linkVars, sessVars, tokVars, recVars, storage, loc, envVars,
                    air, obsVars, notBle >>

(***************************************************************************)
(* The handlers of the WebSocket endpoint (app.py).  A client's request is *)
(* served to its reply before the client's next request is read.           *)
(***************************************************************************)
CommandHandlers == {"reboot_device", "associate_device", "confirm_ota"}

\* the service each handler passes to execute
HandlerService(h) ==
    CASE h = "reboot_device" -> REBOOT_DEVICE
      [] h = "associate_device" -> ASSOCIATE_DEVICE
      [] h = "confirm_ota" -> CONFIRM_OTA

\* whether the handler starts with check_connected()
HandlerChecksConnected(h) == h = "confirm_ota"

Begin(p, op) ==
    /\ pc[p] = "idle" /\ running = NoTask
    /\ p \in Clients
    /\ ops < MaxOps
    /\ ops' = ops + 1

\* handle_connect: await ble_manager.connect(address)
handle_connect(p, mode, t) ==
    /\ Begin(p, "connect")
    /\ loc' = [loc EXCEPT ![p] = [NoLoc EXCEPT !.op = "connect", !.nc = ~connected,
                                               !.mode = mode, !.mtoken = t,
                                               !.address = "AA"]]
    /\ Call(p, "cn_scan", "h_connected")
    /\ UNCHANGED << linkVars, sessVars, tokVars, recVars, storage, running,
                    envVars, air, writes, notBle >>

\* handle_connect, after connect: the manual token (manual_set_token, which
\* saves it), or bruteforce_token, or ensure_token
handle_connect_token(p) ==
    /\ pc[p] = "h_connected" /\ running = p
    /\ IF ~loc[p].rbool
       THEN /\ Goto(p, "h_reply")
            /\ UNCHANGED << tokVars, storage, loc >>
       ELSE CASE loc[p].mode = "manual" ->
                   /\ set_token(loc[p].mtoken)
                   /\ save_token_to_storage(loc[p].mtoken)
                   /\ loc' = [loc EXCEPT ![p].rtoken = loc[p].mtoken]
                   /\ Goto(p, "h_reply")
              [] loc[p].mode = "bruteforce" ->
                   /\ Call(p, "bf_entry", "h_reply")
                   /\ UNCHANGED << tokVars, storage, loc >>
              [] loc[p].mode = "ensure" ->
                   /\ Call(p, "en_entry", "h_reply")
                   /\ UNCHANGED << tokVars, storage, loc >>
    /\ UNCHANGED << linkVars, sessVars, recVars, running, envVars, air, obsVars,
                    notBle >>

\* handle_disconnect
handle_disconnect(p) ==
    /\ Begin(p, "disconnect")
    /\ loc' = [loc EXCEPT ![p] = [NoLoc EXCEPT !.op = "disconnect", !.nc = ~connected]]
    /\ Call(p, "dc_entry", "h_reply")
    /\ running' = p
    /\ UNCHANGED << linkVars, sessVars, tokVars, recVars, storage, envVars, air,
                    writes, notBle >>

\* handle_refresh_token: token = await ble_manager.bruteforce_token()
handle_refresh_token(p) ==
    /\ Begin(p, "refresh_token")
    /\ loc' = [loc EXCEPT ![p] = [NoLoc EXCEPT !.op = "refresh_token", !.nc = ~connected]]
    /\ Call(p, "bf_entry", "h_reply")
    /\ running' = p
    /\ UNCHANGED << linkVars, sessVars, tokVars, recVars, storage, envVars, air,
                    writes, notBle >>

\* handle_set_manual_token: token_manager.set_token(token, save_to_storage=True)
handle_set_manual_token(p, t) ==
    /\ Begin(p, "set_manual_token")
    /\ set_token(t)
    /\ loc' = [loc EXCEPT ![p] = [NoLoc EXCEPT !.op = "set_manual_token",
                                               !.nc = ~connected, !.rtoken = t]]
    /\ Goto(p, "h_reply")
    /\ running' = p
    /\ UNCHANGED << linkVars, sessVars, recVars, storage, envVars, air, writes,
                    notBle >>

\* handle_set_auto_reconnect: ble_manager.enable_auto_reconnect(enabled)
handle_set_auto_reconnect(p, enabled) ==
    /\ Begin(p, "set_auto_reconnect")
    /\ _auto_reconnect_enabled' = enabled
    /\ loc' = [loc EXCEPT ![p] = [NoLoc EXCEPT !.op = "set_auto_reconnect",
                                               !.nc = ~connected]]
    /\ Goto(p, "h_reply")
    /\ running' = p
    /\ UNCHANGED << linkVars, sessVars, tokVars, _reconnect_attempts, storage,
                    envVars, air, writes, notBle >>

\* handle_reboot_device, handle_associate_device, handle_confirm_ota
handle_command(p, h) ==
    /\ Begin(p, h)
    /\ loc' = [loc EXCEPT ![p] = [NoLoc EXCEPT !.op = h, !.nc = ~connected,
                                               !.service = HandlerService(h)]]
    /\ IF HandlerChecksConnected(h) /\ ~connected
       THEN Goto(p, "h_reply")
       ELSE Call(p, "ex_entry", "h_reply")
    /\ running' = p
    /\ UNCHANGED << linkVars, sessVars, tokVars, recVars, storage, envVars, air,
                    writes, notBle >>

\* BLEManager.clear_token_storage: os.remove(storage_file)
clear_token_storage(p) ==
    /\ Begin(p, "clear_token_storage")
    /\ storage' = [k \in StorageKeys |-> None]
    /\ UNCHANGED << linkVars, sessVars, tokVars, recVars, running, pc, stack, loc,
                    envVars, air, writes, notBle >>

\* websocket.send_json(...): the reply goes out, the next request is awaited
Reply(p) ==
    /\ pc[p] = "h_reply" /\ running = p
    /\ pc' = [pc EXCEPT ![p] = "idle"]
    /\ loc' = [loc EXCEPT ![p] = NoLoc]
    /\ running' = NoTask
    /\ UNCHANGED << linkVars, sessVars, tokVars, recVars, storage, stack, envVars,
                    air, obsVars, notBle >>

(***************************************************************************)
(* The environment: the clock and the radio link.                          *)
(***************************************************************************)
Tick ==
    /\ running = NoTask
    /\ now < MaxTime
    /\ now' = now + 1
    /\ UNCHANGED << linkVars, sessVars, tokVars, recVars, storage, running, pc,
                    stack, loc, devToken, air, obsVars, notBle >>

\* The link drops: client.is_connected turns false, nothing more arrives.
LinkLost ==
    /\ running = NoTask
    /\ is_connected
    /\ is_connected' = FALSE
    /\ air' = <<>>
    /\ UNCHANGED << device, _connected, sessVars, tokVars, recVars, storage,
                    running, pc, stack, loc, envVars, obsVars, notBle >>

TaskNext(p) ==
    \/ SendCommand(p) \/ SendCommandResume(p) \/ SendCommandTimeout(p)
    \/ BruteforceToken(p) \/ BruteforceLoop(p) \/ BruteforceCheck(p)
    \/ BruteforceNext(p)
    \/ EnsureToken(p) \/ EnsureTokenReturn(p)
    \/ Execute(p) \/ ExecuteToken(p, TRUE) \/ ExecuteToken(p, FALSE)
    \/ ExecuteSent(p) \/ ExecuteReconnected(p) \/ ExecuteResent(p)
    \/ AutoReconnect(p) \/ AutoReconnectSleep(p) \/ AutoReconnectConnect(p)
    \/ AutoReconnectConnected(p) \/ AutoReconnectToken(p)
    \/ Connect(p) \/ Disconnect(p) \/ DisconnectDone(p)
    \/ AutoRefreshLoop(p) \/ AutoRefreshWake(p)
    \/ \E mode \in {"bruteforce", "ensure"} : handle_connect(p, mode, None)
    \/ \E t \in ManualTokens : handle_connect(p, "manual", t)
    \/ handle_connect_token(p)
    \/ handle_disconnect(p)
    \/ handle_refresh_token(p)
    \/ \E t \in ManualTokens : handle_set_manual_token(p, t)
    \/ \E enabled \in BOOLEAN : handle_set_auto_reconnect(p, enabled)
    \/ \E h \in CommandHandlers : handle_command(p, h)
    \/ clear_token_storage(p)
    \/ Reply(p)

EnvNext == NotificationHandler \/ Tick \/ LinkLost

(***************************************************************************)
(* Part II.  Gateway command correlation (mqtt_client.py).                 *)
(***************************************************************************)
Gateways == {"gw1", "gw2"}
NoMsg == [cmd_id |-> 0, gateway |-> "none"]

MqInit ==
    /\ _client = FALSE
    /\ _command_responses = {}
    /\ cmd = <<>>
    /\ handled = 0
    /\ msg = NoMsg

\* MQTTClient.start: the broker connection is up, self._client = client
MqStart ==
    /\ ~_client
    /\ _client' = TRUE
    /\ UNCHANGED << _command_responses, cmd, handled, msg, bleVars, extVars >>

\* MQTTClient.stop
MqStop ==
    /\ _client
    /\ _client' = FALSE
    /\ UNCHANGED << _command_responses, cmd, handled, msg, bleVars, extVars >>

\* GatewayDataStore.register_command: a pending future under cmd_id
register_command(cmd_id) == _command_responses' = _command_responses \cup {cmd_id}

\* MQTTClient.send_command up to its wait: a fresh cmd_id (uuid4), the
\* future registered, the command published.  A publish that raises leaves
\* the caller with the exception.
MqSendCommand(gateway_id) ==
    /\ _client
    /\ Len(cmd) < MaxCmds
    /\ LET cmd_id == Len(cmd) + 1 IN
       /\ register_command(cmd_id)
       /\ \E published \in BOOLEAN :
            cmd' = Append(cmd, [gateway |-> gateway_id,
                                state |-> IF published THEN "waiting" ELSE "raised",
                                result |-> NoMsg])
    /\ UNCHANGED << _client, handled, msg, bleVars, extVars >>

\* A lookup that ignores the cmd_id: whichever future is pending.
pending_future_any(response) ==
    IF _command_responses # {} THEN CHOOSE c \in _command_responses : TRUE ELSE 0

\* The future a cmd_response resolves: the one registered under its cmd_id.
pending_future(response) ==
    IF response.cmd_id # 0 /\ response.cmd_id \in _command_responses
    THEN response.cmd_id ELSE 0

\* GatewayDataStore.handle_command_response, for a cmd_response message of
\* any gateway with any cmd_id (0: none): pop the future registered under
\* the cmd_id and, unless it is done, set its result.
handle_command_response(gateway_id, cmd_id) ==
    /\ handled < MaxMsgs
    /\ handled' = handled + 1
    /\ LET response == [cmd_id |-> cmd_id, gateway |-> gateway_id]
           f == pending_future(response)
       IN  /\ msg' = response
           /\ _command_responses' = _command_responses \ {f}
           /\ cmd' = IF f # 0 /\ cmd[f].state = "waiting"
                     THEN [cmd EXCEPT ![f].state = "resolved", ![f].result = response]
                     ELSE cmd
    /\ UNCHANGED << _client, bleVars, extVars >>

\* asyncio.wait_for expires: the future is cancelled, send_command returns
\* None.  The map is not touched.
MqTimeout(cmd_id) ==
    /\ cmd_id \in 1..Len(cmd)
    /\ cmd[cmd_id].state = "waiting"
    /\ cmd' = [cmd EXCEPT ![cmd_id].state = "timeout"]
    /\ UNCHANGED << _client, _command_responses, handled, msg, bleVars, extVars >>

MqNext ==
    \/ MqStart \/ MqStop
    \/ \E g \in Gateways : MqSendCommand(g)
    \/ \E g \in Gateways, c \in 0..MaxCmds : handle_command_response(g, c)
    \/ \E c \in 1..MaxCmds : MqTimeout(c)


(***************************************************************************)
(* Part III.  The frame codec on its own: build_message is called with     *)
(* arguments from small sets, the frame may lose its tail or have one bit  *)
(* of its header flipped, and parse_response reads what arrives.           *)
(***************************************************************************)
Versions == {0, 1}
MsgIds == {1, 255}
Services == {GET_DEVICE_MODEL, GET_DEVICE_MODEL + 128}
Payloads == UNION { [1..n -> {47, 1}] : n \in 0..MaxPayload }

notCodec == << bleVars, mqVars, onVars, pushVars, authVars, histVars, moreVars >>

CodecInit ==
    /\ built = <<>>
    /\ frame = <<>>
    /\ damage = "none"
    /\ parsed = <<>>

\* message = build_message(version, msg_id, service, sequence, flags, payload)
BuildMessage(version, id, service, sequence, flags, payload) ==
    /\ built' = << [version |-> version, msg_id |-> id, service |-> service,
                    sequence |-> sequence, flags |-> flags, payload |-> payload] >>
    /\ frame' = build_message(version, id, service, sequence, flags, payload)
    /\ damage' = "none"
    /\ parsed' = <<>>
    /\ UNCHANGED notCodec

\* bit b of a byte inverted
XorBit(byte, b) ==
    IF (byte \div (2 ^ b)) % 2 = 1 THEN byte - 2 ^ b ELSE byte + 2 ^ b

\* The link flips bit b of byte i of the header.
FlipBit(i, b) ==
    /\ built # <<>> /\ damage = "none" /\ parsed = <<>>
    /\ frame' = [frame EXCEPT ![i] = XorBit(@, b)]
    /\ damage' = "flip"
    /\ UNCHANGED << built, parsed, notCodec >>

\* Only the first n bytes of the frame arrive.
Truncate(n) ==
    /\ built # <<>> /\ damage = "none" /\ parsed = <<>>
    /\ n < Len(frame)
    /\ frame' = SubSeq(frame, 1, n)
    /\ damage' = "cut"
    /\ UNCHANGED << built, parsed, notCodec >>

\* response = parse_response(data)
ParseResponse ==
    /\ built # <<>> /\ parsed = <<>>
    /\ parsed' = << parse_response(frame) >>
    /\ UNCHANGED << built, frame, damage, notCodec >>

CodecNext ==
    \/ \E version \in Versions, id \in MsgIds, service \in Services,
          payload \in Payloads :
         BuildMessage(version, id, service, 0, ACK, payload)
    \/ \E i \in 1..9, b \in 0..7 : FlipBit(i, b)
    \/ \E n \in 0..(9 + MaxPayload) : Truncate(n)
    \/ ParseResponse


(***************************************************************************)
(* Part IV.  Gateway records (GatewayDataStore) and the timeout scanner    *)
(* (gateway_timeout_checker).  The clock is read every ClockStep seconds;  *)
(* the scanner runs when its sleep is over, before the clock moves on.     *)
(* A record carries two extra fields: last_msg, the type of the last       *)
(* message handled for the gateway, and timeouts, the number of timeout    *)
(* events pushed for it since that message.  since_heartbeat is the number *)
(* of timeout events pushed for it since its last heartbeat, None before   *)
(* its first heartbeat.                                                    *)
(***************************************************************************)
MsgTypes == {"ports", "device_info", "heartbeat", "status"}
NoGateway == [known |-> FALSE, connected |-> FALSE, last_heartbeat |-> 0,
              last_msg |-> "none", timeouts |-> 0, since_heartbeat |-> None]

notOn == << bleVars, mqVars, codecVars, pushVars, authVars, histVars, moreVars >>

OnInit ==
    /\ gnow = 0
    /\ _gateways = [g \in Gateways |-> NoGateway]
    /\ scan_at = check_interval
    /\ received = 0

\* if gateway_id not in self._gateways: GatewayInfo(gateway_id=gateway_id);
\* gw = self._gateways[gateway_id].  A new record has connected = False and
\* last_heartbeat = datetime.now().
GatewayInfo(gateway_id) ==
    IF _gateways[gateway_id].known THEN _gateways[gateway_id]
    ELSE [NoGateway EXCEPT !.known = TRUE, !.last_heartbeat = gnow]

\* The record stored and the subscribers notified.
Store(gateway_id, gw, msg_type) ==
    /\ received' = received + 1
    /\ _gateways' = [_gateways EXCEPT ![gateway_id] =
                       [gw EXCEPT !.last_msg = msg_type, !.timeouts = 0]]
    /\ UNCHANGED << gnow, scan_at, notOn >>

\* GatewayDataStore.update_ports
update_ports(gateway_id) ==
    /\ received < MaxInbound
    /\ Store(gateway_id, [GatewayInfo(gateway_id) EXCEPT !.connected = TRUE], "ports")

\* GatewayDataStore.update_device_info
update_device_info(gateway_id) ==
    /\ received < MaxInbound
    /\ Store(gateway_id, [GatewayInfo(gateway_id) EXCEPT !.connected = TRUE],
             "device_info")

\* GatewayDataStore.update_heartbeat; c is heartbeat.get("connected", True)
update_heartbeat(gateway_id, c) ==
    /\ received < MaxInbound
    /\ Store(gateway_id, [GatewayInfo(gateway_id) EXCEPT !.last_heartbeat = gnow,
                                                         !.connected = c,
                                                         !.since_heartbeat = 0],
             "heartbeat")

\* GatewayDataStore.update_status; c is status.get("connected", False)
update_status(gateway_id, c) ==
    /\ received < MaxInbound
    /\ Store(gateway_id, [GatewayInfo(gateway_id) EXCEPT !.connected = c], "status")

\* One pass of gateway_timeout_checker after its sleep: every connected
\* gateway whose heartbeat is older than the timeout is flipped and a
\* timeout event is broadcast for it.
gateway_timeout_checker ==
    /\ gnow >= scan_at
    /\ scan_at' = gnow + check_interval
    /\ _gateways' =
         [g \in Gateways |->
            LET gateway == _gateways[g] IN
            IF gateway.known /\ gateway.connected
               /\ gnow - gateway.last_heartbeat > gateway_timeout_seconds
            THEN [gateway EXCEPT !.connected = FALSE, !.timeouts = @ + 1,
                                 !.since_heartbeat =
                                     IF @ = None THEN None ELSE @ + 1]
            ELSE gateway]
    /\ UNCHANGED << gnow, received, notOn >>

\* list_gateways: gw["online"] = (now - last_heartbeat) < timeout_threshold
list_gateways_online(gateway_id) ==
    gnow - _gateways[gateway_id].last_heartbeat < gateway_timeout_seconds

OnTick ==
    /\ gnow < scan_at
    /\ gnow + ClockStep <= MaxClock
    /\ gnow' = gnow + ClockStep
    /\ UNCHANGED << _gateways, scan_at, received, notOn >>

OnNext ==
    \/ \E g \in Gateways : update_ports(g) \/ update_device_info(g)
    \/ \E g \in Gateways, c \in BOOLEAN : update_heartbeat(g, c) \/ update_status(g, c)
    \/ gateway_timeout_checker
    \/ OnTick

(***************************************************************************)
(* Part V.  The push channel.  on_gateway_update creates one               *)
(* broadcast_update task per event; a task sends the event to the clients  *)
(* of websocket_clients in list order and is suspended at each send.       *)
(* Tasks start in the order of their creation; nothing in the code orders  *)
(* how suspended tasks resume.  An event is named by the index of its task.*)
(***************************************************************************)
websocket_clients == << "w1", "w2" >>

notPush == << bleVars, mqVars, codecVars, onVars, authVars, histVars, moreVars >>

PushInit ==
    /\ broadcasts = <<>>
    /\ inbox = [w \in 1..Len(websocket_clients) |-> <<>>]

\* on_gateway_update: asyncio.create_task(broadcast_update(...))
on_gateway_update(gateway_id) ==
    /\ Len(broadcasts) < MaxEvents
    /\ broadcasts' = Append(broadcasts, [gateway |-> gateway_id, pos |-> 0])
    /\ UNCHANGED << inbox, notPush >>

\* broadcast_update: the next await ws.send_json(message) of task i
broadcast_update(i) ==
    /\ i \in 1..Len(broadcasts)
    /\ broadcasts[i].pos < Len(websocket_clients)
    /\ broadcasts[i].pos = 0 => \A j \in 1..(i - 1) : broadcasts[j].pos > 0
    /\ inbox' = [inbox EXCEPT ![broadcasts[i].pos + 1] = Append(@, i)]
    /\ broadcasts' = [broadcasts EXCEPT ![i].pos = @ + 1]
    /\ UNCHANGED notPush

PushNext ==
    \/ \E g \in Gateways : on_gateway_update(g)
    \/ \E i \in 1..MaxEvents : broadcast_update(i)

(***************************************************************************)
(* Part VI.  The API key.  A request presents a key ("" when the header is *)
(* absent); the HTTP routes that depend on verify_api_key answer 401       *)
(* unless it passes; the WebSocket endpoint accepts every connection and   *)
(* sends the init message with all gateways.                               *)
(***************************************************************************)
ApiKeys == {"", "s3cret"}
PresentedKeys == {"", "s3cret", "guess"}
HttpRoutes == {"list_gateways", "send_command", "health_check"}

notAuth == << bleVars, mqVars, codecVars, onVars, pushVars, histVars, moreVars >>

AuthInit ==
    /\ api_key = ""
    /\ requests = <<>>

\* verify_api_key
verify_api_key(presented) ==
    IF api_key = "" THEN TRUE
    ELSE presented # "" /\ presented = api_key

\* the routes declared with Depends(verify_api_key)
DependsOnKey(route) == route # "health_check"

\* An HTTP request on one of the routes.
HttpRequest(route, presented) ==
    /\ Len(requests) < MaxReqs
    /\ LET admitted == DependsOnKey(route) => verify_api_key(presented) IN
       requests' = Append(requests,
                     [channel |-> "http", route |-> route, key |-> presented,
                      admitted |-> admitted,
                      data |-> admitted /\ route = "list_gateways",
                      command |-> admitted /\ route = "send_command"])
    /\ UNCHANGED << api_key, notAuth >>

\* websocket_endpoint: accept, append to websocket_clients, send "init".
WebSocketConnect(presented) ==
    /\ Len(requests) < MaxReqs
    /\ requests' = Append(requests,
                     [channel |-> "ws", route |-> "ws", key |-> presented,
                      admitted |-> TRUE, data |-> TRUE, command |-> FALSE])
    /\ UNCHANGED << api_key, notAuth >>

AuthNext ==
    \/ \E r \in HttpRoutes, k \in PresentedKeys : HttpRequest(r, k)
    \/ \E k \in PresentedKeys : WebSocketConnect(k)


(***************************************************************************)
(* Part VII.  The history store.  A row's timestamp is SQLite's            *)
(* CURRENT_TIMESTAMP, the text 'YYYY-MM-DD HH:MM:SS'; the queries compare  *)
(* it, as text, with datetime.isoformat(), 'YYYY-MM-DDTHH:MM:SS.ffffff'.   *)
(* A text is modelled as the sequence << day, separator, time of day >>    *)
(* with the separator's character code, and compared as SQLite compares    *)
(* text: position by position.  The host's local time is UTC.  Each row    *)
(* also carries at, the tick at which it was inserted.  Watts are whole    *)
(* numbers; the rounded results are in hundredths.                         *)
(***************************************************************************)
HoursPerTick == 24 \div TicksPerDay
StatHours == {HoursPerTick, 24}
Powers == {10, 20}
EventTypes == {"status"}

notHist == << bleVars, mqVars, codecVars, onVars, pushVars, authVars, moreVars >>

HistInit ==
    /\ hclock = 0
    /\ port_history = {}
    /\ gateway_events = {}
    /\ next_id = 1
    /\ stats = <<>>
    /\ cleanups = 0

\* DEFAULT CURRENT_TIMESTAMP
CURRENT_TIMESTAMP(t) == << t \div TicksPerDay, 32, t % TicksPerDay >>

\* datetime.isoformat()
isoformat(t) == << t \div TicksPerDay, 84, t % TicksPerDay >>

\* a < b for two texts
RECURSIVE TextLess(_, _)
TextLess(a, b) ==
    IF a = <<>> THEN b # <<>>
    ELSE IF b = <<>> THEN FALSE
    ELSE IF Head(a) # Head(b) THEN Head(a) < Head(b)
    ELSE TextLess(Tail(a), Tail(b))

\* HistoryStore.record_port_data, for a list of one port
record_port_data(gateway_id, power) ==
    /\ next_id <= MaxRows
    /\ port_history' = port_history \cup
          { [id |-> next_id, gateway_id |-> gateway_id, power_w |-> power,
             timestamp |-> CURRENT_TIMESTAMP(hclock), at |-> hclock] }
    /\ next_id' = next_id + 1
    /\ stats' = <<>>
    /\ UNCHANGED << hclock, gateway_events, cleanups, notHist >>

\* HistoryStore.record_event
record_event(gateway_id, event_type) ==
    /\ next_id <= MaxRows
    /\ gateway_events' = gateway_events \cup
          { [id |-> next_id, gateway_id |-> gateway_id, event_type |-> event_type,
             timestamp |-> CURRENT_TIMESTAMP(hclock), at |-> hclock] }
    /\ next_id' = next_id + 1
    /\ stats' = <<>>
    /\ UNCHANGED << hclock, port_history, cleanups, notHist >>

RECURSIVE SumPower(_)
SumPower(rows) ==
    IF rows = {} THEN 0
    ELSE LET r == CHOOSE x \in rows : TRUE IN r.power_w + SumPower(rows \ {r})

MaxPower(rows) ==
    IF rows = {} THEN 0
    ELSE LET r == CHOOSE x \in rows : \A y \in rows : y.power_w <= x.power_w
         IN  r.power_w

\* round(num / den, 2), in hundredths
Round2(num, den) == (200 * num + den) \div (2 * den)

\* SUM(power_w) / 3600.0, MAX(power_w), AVG(power_w), COUNT(*) over rows,
\* and the rounding of the result
power_stats(gateway_id, hours, rows) ==
    [gateway_id |-> gateway_id, period_hours |-> hours,
     total_wh |-> Round2(SumPower(rows), 3600),
     max_power_w |-> 100 * MaxPower(rows),
     avg_power_w |-> IF rows = {} THEN 0
                     ELSE Round2(SumPower(rows), Cardinality(rows)),
     sample_count |-> Cardinality(rows)]

\* HistoryStore.get_power_stats: WHERE gateway_id = ? AND timestamp > ?
get_power_stats(gateway_id, hours) ==
    /\ LET since == hclock - hours \div HoursPerTick
           rows == { r \in port_history :
                       /\ r.gateway_id = gateway_id
                       /\ TextLess(isoformat(since), r.timestamp) }
       IN  stats' = << power_stats(gateway_id, hours, rows) >>
    /\ stats' # stats
    /\ UNCHANGED << hclock, port_history, gateway_events, next_id, cleanups,
                    notHist >>

\* HistoryStore.cleanup_old_data: DELETE ... WHERE timestamp < ?
cleanup_old_data(days) ==
    /\ cleanups < MaxCleanups
    /\ cleanups' = cleanups + 1
    /\ LET cutoff == hclock - days * TicksPerDay IN
       /\ port_history' =
            { r \in port_history : ~TextLess(r.timestamp, isoformat(cutoff)) }
       /\ gateway_events' =
            { r \in gateway_events : ~TextLess(r.timestamp, isoformat(cutoff)) }
    /\ stats' = <<>>
    /\ UNCHANGED << hclock, next_id, notHist >>

HistTick ==
    /\ hclock < MaxHClock
    /\ hclock' = hclock + 1
    /\ stats' = <<>>
    /\ UNCHANGED << port_history, gateway_events, next_id, cleanups, notHist >>

HistNext ==
    \/ \E g \in Gateways, w \in Powers : record_port_data(g, w)
    \/ \E g \in Gateways, e \in EventTypes : record_event(g, e)
    \/ \E g \in Gateways, h \in StatHours : get_power_stats(g, h)
    \/ cleanup_old_data(retention_days)
    \/ HistTick

(***************************************************************************)
(* Part VIII.  The request dispatchers: the receive loops of the           *)
(* WebSocket endpoints of the controller app (ionbridge-ble-controller/    *)
(* app.py) and of the station app (ble-charging-station/app.py).  One      *)
(* action is one turn of the loop: a request is received, its handler is   *)
(* awaited and the replies are sent.  Each app has its own ble_manager.    *)
(***************************************************************************)
Apps == {"controller", "station"}

\* class ServiceCommand(IntEnum): member name :> service code
ServiceCommand ==
    ("BLE_ECHO_TEST" :> 0) @@ ("GET_DEBUG_LOG" :> 1) @@
    ("GET_SECURE_BOOT_DIGEST" :> 2) @@ ("PING_MQTT_TELEMETRY" :> 3) @@
    ("PING_HTTP" :> 4) @@ ("GET_DEVICE_PASSWORD" :> 5) @@
    ("MANAGE_POWER_ALLOCATOR_ENABLED" :> 9) @@ ("ASSOCIATE_DEVICE" :> 16) @@
    ("REBOOT_DEVICE" :> 17) @@ ("RESET_DEVICE" :> 18) @@
    ("GET_DEVICE_SERIAL_NO" :> 19) @@ ("GET_DEVICE_UPTIME" :> 20) @@
    ("GET_AP_VERSION" :> 21) @@ ("GET_BP_VERSION" :> 22) @@
    ("GET_FPGA_VERSION" :> 23) @@ ("GET_ZRLIB_VERSION" :> 24) @@
    ("GET_DEVICE_BLE_ADDR" :> 25) @@ ("SWITCH_DEVICE" :> 26) @@
    ("GET_DEVICE_SWITCH" :> 27) @@ ("GET_DEVICE_MODEL" :> 28) @@
    ("PUSH_LICENSE" :> 29) @@ ("GET_BLE_RSSI" :> 30) @@
    ("GET_BLE_MTU" :> 31) @@ ("PERFORM_BLE_OTA" :> 32) @@
    ("PERFORM_WIFI_OTA" :> 33) @@ ("GET_WIFI_OTA_PROGRESS" :> 34) @@
    ("CONFIRM_OTA" :> 35) @@ ("SCAN_WIFI" :> 48) @@
    ("GET_WIFI_SCAN_RESULT" :> 49) @@ ("SET_WIFI_SSID" :> 50) @@
    ("RESET_WIFI" :> 51) @@ ("GET_WIFI_STATUS" :> 52) @@
    ("GET_DEVICE_WIFI_ADDR" :> 53) @@ ("SET_WIFI_SSID_AND_PASSWORD" :> 54) @@
    ("GET_WIFI_RECORDS" :> 55) @@ ("OPERATE_WIFI_RECORD" :> 56) @@
    ("GET_WIFI_STATE_MACHINE" :> 57) @@ ("SET_WIFI_STATE_MACHINE" :> 58) @@
    ("TOGGLE_PORT_POWER" :> 64) @@ ("GET_POWER_STATISTICS" :> 65) @@
    ("GET_POWER_SUPPLY_STATUS" :> 66) @@ ("SET_CHARGING_STRATEGY" :> 67) @@
    ("GET_CHARGING_STATUS" :> 68) @@ ("GET_POWER_HISTORICAL_STATS" :> 69) @@
    ("SET_PORT_PRIORITY" :> 70) @@ ("GET_PORT_PRIORITY" :> 71) @@
    ("GET_CHARGING_STRATEGY" :> 72) @@ ("GET_PORT_PD_STATUS" :> 73) @@
    ("GET_ALL_POWER_STATISTICS" :> 74) @@
    ("GET_START_CHARGE_TIMESTAMP" :> 75) @@ ("TURN_ON_PORT" :> 76) @@
    ("TURN_OFF_PORT" :> 77) @@ ("SET_STATIC_ALLOCATOR" :> 85) @@
    ("GET_STATIC_ALLOCATOR" :> 86) @@ ("SET_PORT_CONFIG" :> 87) @@
    ("GET_PORT_CONFIG" :> 88) @@ ("SET_PORT_COMPATIBILITY_SETTINGS" :> 89) @@
    ("GET_PORT_COMPATIBILITY_SETTINGS" :> 90) @@
    ("SET_TEMPERATURE_MODE" :> 91) @@ ("SET_TEMPORARY_ALLOCATOR" :> 92) @@
    ("SET_PORT_CONFIG1" :> 93) @@ ("GET_PORT_CONFIG1" :> 94) @@
    ("SET_DISPLAY_INTENSITY" :> 112) @@ ("SET_DISPLAY_MODE" :> 113) @@
    ("GET_DISPLAY_INTENSITY" :> 114) @@ ("GET_DISPLAY_MODE" :> 115) @@
    ("SET_DISPLAY_FLIP" :> 116) @@ ("GET_DISPLAY_FLIP" :> 117) @@
    ("SET_DISPLAY_CONFIG" :> 118) @@ ("SET_DISPLAY_STATE" :> 119) @@
    ("GET_DISPLAY_STATE" :> 120) @@ ("START_TELEMETRY_STREAM" :> 144) @@
    ("STOP_TELEMETRY_STREAM" :> 145) @@ ("GET_DEVICE_INFO" :> 146) @@
    ("SET_BLE_STATE" :> 152) @@ ("SET_SYSLOG_STATE" :> 153) @@
    ("SET_SYSTEM_TIME" :> 154) @@ ("START_OTA" :> 156) @@
    ("MANAGE_POWER_CONFIG" :> 10) @@ ("MANAGE_FEATURE_TOGGLE" :> 11) @@
    ("ENABLE_RELEASE_MODE" :> 12)

\* ACTION_HANDLERS of the controller app, for the handlers that make one
\* execute call (or none): action :> the member of ServiceCommand the
\* handler names, "" for a handler that sends no command.
ACTION_HANDLERS ==
    ("get_status" :> "") @@ ("connect" :> "") @@ ("disconnect" :> "") @@
    ("reboot_device" :> "REBOOT_DEVICE") @@
    ("reset_device" :> "RESET_DEVICE") @@
    ("get_device_model" :> "GET_DEVICE_MODEL") @@
    ("associate_device" :> "ASSOCIATE_DEVICE") @@
    ("unbind_device" :> "UNBIND_DEVICE") @@
    ("factory_reset" :> "FACTORY_RESET") @@
    ("get_mcu_version" :> "GET_MCU_VERSION") @@
    ("get_sw3566_version" :> "GET_SW3566_VERSION") @@
    ("set_max_power" :> "SET_MAX_POWER") @@
    ("get_max_power" :> "GET_MAX_POWER") @@
    ("set_night_mode" :> "SET_NIGHT_MODE") @@
    ("get_night_mode" :> "GET_NIGHT_MODE") @@
    ("set_language" :> "SET_LANGUAGE") @@
    ("get_language" :> "GET_LANGUAGE") @@
    ("set_led_mode" :> "SET_LED_MODE") @@
    ("get_led_mode" :> "GET_LED_MODE") @@
    ("set_auto_off" :> "SET_AUTO_OFF") @@
    ("get_auto_off" :> "GET_AUTO_OFF") @@
    ("set_screen_saver" :> "SET_SCREEN_SAVER") @@
    ("get_screen_saver" :> "GET_SCREEN_SAVER") @@
    ("get_bp_version" :> "GET_BP_VERSION") @@
    ("confirm_ota" :> "CONFIRM_OTA")

\* the handlers that start with check_connected()
ChecksConnected == {"get_bp_version", "confirm_ota"}

\* ACTION_HANDLERS of the station app (same shape), and the message types
\* its loop serves besides
StationHandlers ==
    ("get_status" :> "") @@ ("reboot_device" :> "REBOOT_DEVICE") @@
    ("reset_device" :> "RESET_DEVICE")
StationTypes == {"connect", "ping", "port_power"}

\* what clients send
UnknownActions == {"bogus"}
RequestArgs == {None} \cup DevTokens

notDisp == << bleVars, mqVars, codecVars, onVars, pushVars, authVars, histVars,
             parseVars, storeVars, reconVars,
              bruteVars, renewVars,
             journalVars, pathVars,
             busVars,
             loopVars, idVars >>

DispInit ==
    /\ ws_connected = [a \in Apps |-> FALSE]
    /\ ws_token = [a \in Apps |-> None]
    /\ ws_frames = [a \in Apps |-> <<>>]
    /\ served = <<>>

\* BLEManager.execute(service) as a handler sees it: on a connected session
\* (which holds a token) the command frame is written and the device's
\* response returned; without a connection ensure_token finds no token and
\* nothing is written.  The result: <<response is not None, frames>>.
ws_execute(app, service) ==
    IF ws_connected[app] /\ ws_token[app] # None
    THEN << TRUE, << service >> >>
    ELSE << FALSE, <<>> >>

\* `await handler(params)`: what the handler of an action does.  raised: it
\* ended with an exception; success: the "success" of its result.
Handler(app, registry, action, arg) ==
    LET member == registry[action]
        same == [raised |-> FALSE, success |-> TRUE, frames |-> <<>>,
                 connected |-> ws_connected[app], token |-> ws_token[app]]
    IN  CASE action = "connect" ->
               \* handle_connect: no address, or connect and ensure_token
               IF arg = None THEN [same EXCEPT !.success = FALSE]
               ELSE [same EXCEPT !.connected = TRUE, !.token = arg]
          [] action = "disconnect" ->
               \* handle_disconnect: BLEManager.disconnect
               [same EXCEPT !.connected = FALSE, !.token = None]
          [] member = "" -> same
          [] OTHER ->
               IF action \in ChecksConnected /\ ~ws_connected[app]
               THEN [same EXCEPT !.success = FALSE]
               ELSE IF member \notin DOMAIN ServiceCommand
               THEN \* AttributeError while the argument of execute is built
                    [same EXCEPT !.raised = TRUE, !.success = FALSE]
               ELSE LET r == ws_execute(app, ServiceCommand[member])
                    IN  [same EXCEPT !.success = r[1], !.frames = r[2]]

\* one served request, as it is kept in `served`
Served(app, msg_type, action, invoked, h, replies) ==
    [app |-> app, msg_type |-> msg_type, action |-> action,
     invoked |-> invoked, raised |-> h.raised, frames |-> h.frames,
     replies |-> replies,
     before |-> << ws_connected[app], ws_token[app] >>,
     after |-> << h.connected, h.token >>]

Serve(app, msg_type, action, invoked, h, replies) ==
    /\ ws_connected' = [ws_connected EXCEPT ![app] = h.connected]
    /\ ws_token' = [ws_token EXCEPT ![app] = h.token]
    /\ ws_frames' = [ws_frames EXCEPT ![app] = @ \o h.frames]
    /\ served' = Append(served,
                        Served(app, msg_type, action, invoked, h, replies))

\* the result of a turn in which no handler runs
NoHandler(app) ==
    [raised |-> FALSE, success |-> FALSE, frames |-> <<>>,
     connected |-> ws_connected[app], token |-> ws_token[app]]

\* websocket_endpoint of the controller app: one turn of `while True`
websocket_endpoint(action, arg) ==
    /\ Len(served) < MaxServed
    /\ IF action \in DOMAIN ACTION_HANDLERS
       THEN LET h == Handler("controller", ACTION_HANDLERS, action, arg)
                reply == IF h.raised
                         THEN [type |-> "error", action |-> action]
                         ELSE [type |-> "response", action |-> action]
            IN  Serve("controller", "", action, TRUE, h, << reply >>)
       ELSE Serve("controller", "", action, FALSE, NoHandler("controller"),
                  << [type |-> "error", action |-> ""] >>)
    /\ UNCHANGED notDisp

\* websocket_endpoint of the station app: one turn of `while True`
station_websocket_endpoint(msg_type, action, arg) ==
    /\ Len(served) < MaxServed
    /\ msg_type # "" \/ action # ""   \* a request names a type or an action
    /\ LET app == "station"
           none == NoHandler(app)
       IN  IF action # "" /\ action \in DOMAIN StationHandlers
           THEN LET h == Handler(app, StationHandlers, action, arg)
                IN  Serve(app, msg_type, action, TRUE, h,
                          << [type |-> "response", action |-> action] >>)
           ELSE IF msg_type = "connect"
           THEN \* perform_connection(address)
                LET h == Handler(app, ("connect" :> ""), "connect", arg)
                IN  Serve(app, msg_type, action, TRUE, h,
                          << [type |-> "connect_result", action |-> ""] >>)
           ELSE IF msg_type = "ping"
           THEN Serve(app, msg_type, action, FALSE, none,
                      << [type |-> "pong", action |-> ""] >>)
           ELSE IF msg_type = "port_power"
           THEN \* ble_manager.set_port_power only when connected
                IF ws_connected[app]
                THEN LET r == ws_execute(app, ServiceCommand["TURN_ON_PORT"])
                         h == [none EXCEPT !.success = r[1],
                                           !.frames = r[2]]
                     IN  Serve(app, msg_type, action, TRUE, h,
                               << [type |-> "port_power_result",
                                   action |-> ""] >>)
                ELSE Serve(app, msg_type, action, FALSE, none, <<>>)
           ELSE Serve(app, msg_type, action, FALSE, none, <<>>)
    /\ UNCHANGED notDisp

DispNext ==
    \/ \E a \in DOMAIN ACTION_HANDLERS \cup UnknownActions,
          arg \in RequestArgs : websocket_endpoint(a, arg)
    \/ \E m \in StationTypes \cup {""},
          a \in DOMAIN StationHandlers \cup UnknownActions \cup {""},
          arg \in RequestArgs : station_websocket_endpoint(m, a, arg)

(***************************************************************************)
(* Part IX.  The payload parsers of protocol.py.  Quantities the code      *)
(* keeps as rounded floats are kept as integers in the unit of their last  *)
(* decimal: round(x, 2) volts are hundredths of a volt, round(x, 3)        *)
(* amperes are thousandths of an ampere.                                   *)
(***************************************************************************)
notParse == << bleVars, mqVars, codecVars, onVars, pushVars, authVars, histVars,
              dispVars, storeVars, reconVars,
               bruteVars, renewVars,
             journalVars, pathVars,
             busVars,
             loopVars, idVars >>

ParseInit ==
    /\ called = <<>>
    /\ returned = <<>>

\* round(num / den) of Python 3: to the nearest integer, a tie to the even
\* one.  The quotients rounded here are exact binary fractions.
RoundHalfEven(num, den) ==
    LET q == num \div den
        r == num % den
    IN  IF 2 * r < den THEN q
        ELSE IF 2 * r > den THEN q + 1
        ELSE IF q % 2 = 0 THEN q ELSE q + 1

\* bit k of x: (x >> k) & 1
Bit(x, k) == (x \div 2^k) % 2

\* one chunk of a port-statistics payload
PortChunks ==
    { << fc, a, v, 25, 16, 0, 8, 0 >> : fc \in {0, 1, 255}, a \in {0, 32},
                                        v \in {0, 40} }
PortPayloads == UNION { [1..n -> PortChunks] : n \in 0..MaxPorts }

RECURSIVE Flatten(_)
Flatten(chunks) ==
    IF chunks = <<>> THEN <<>> ELSE Head(chunks) \o Flatten(Tail(chunks))

\* PortInfo(...) as parse_port_statistics builds it from chunk i
PortInfo(port_id, chunk) ==
    LET fc_protocol == chunk[1]
        amperage_scaled == chunk[2]
        voltage_scaled == chunk[3]
    IN  [port_id |-> port_id,
         status |-> fc_protocol,
         protocol |-> fc_protocol,
         voltage |-> RoundHalfEven(voltage_scaled * 100, 8),
         current |-> RoundHalfEven(amperage_scaled * 1000, 32),
         power |-> RoundHalfEven(voltage_scaled * amperage_scaled * 100, 256),
         charging |-> amperage_scaled * 100 > 32,
         enabled |-> fc_protocol # 255 \/ voltage_scaled > 0
                        \/ amperage_scaled > 0]

parse_port_statistics(data) ==
    LET d == IF Len(data) > 0 /\ data[1] = 0 THEN Tail(data) ELSE data
        chunk_size == 8
    IN  [i \in 1..(Len(d) \div chunk_size) |->
            PortInfo(i - 1, SubSeq(d, (i - 1) * chunk_size + 1,
                                      i * chunk_size))]

\* parse_port_statistics(data) on a payload of chunks, with or without
\* the leading status byte
ParsePortStatistics(status_byte, chunks) ==
    /\ called = <<>>
    /\ LET data == (IF status_byte THEN << 0 >> ELSE <<>>) \o Flatten(chunks)
       IN  /\ called' = << [fn |-> "parse_port_statistics",
                            status_byte |-> status_byte, chunks |-> chunks,
                            data |-> data] >>
           /\ returned' = parse_port_statistics(data)
    /\ UNCHANGED << notParse >>

\* a full PD-status payload: the last byte the parser reads is byte 38
PdFullLen == 39
PdPayloads ==
    { [i \in 1..PdFullLen |-> 255],
      [i \in 1..PdFullLen |-> (i * 37) % 256],
      [i \in 1..PdFullLen |-> (i * 101 + 7) % 256] }
PdZeros == [i \in 1..PdFullLen |-> 0]

get_byte_wrapped(payload, offset) == payload[(offset % Len(payload)) + 1]

\* get_byte(offset): payload[offset] if offset < n else 0
get_byte(payload, offset) ==
    IF offset < Len(payload) THEN payload[offset + 1] ELSE 0

\* get_word(offset): two bytes, little-endian, if offset + 1 < n else 0
get_word(payload, offset) ==
    IF offset + 1 < Len(payload)
    THEN payload[offset + 1] + 256 * payload[offset + 2]
    ELSE 0

\* parse_port_pd_status_response(payload).  Values the code looks up in a
\* table of names are kept as the table's key; capacities are in the 0.1 Wh
\* of the payload, current and voltage in the 0.01 A and 0.01 V of the
\* payload, power in 0.01 W.
parse_port_pd_status_response(payload) ==
    IF Len(payload) < 2 THEN [error |-> "Response too short"]
    ELSE
    LET cable_flags == get_byte(payload, 10)
        cable_voltage_flags == get_byte(payload, 11)
        cable_speed_flags == get_byte(payload, 12)
        op_current_low == get_byte(payload, 34)
        op_current_high == get_byte(payload, 35)
        op_current == (op_current_high % 4) * 256 + op_current_low
        op_voltage ==
            (get_byte(payload, 38) * 256 + get_byte(payload, 37)) % 32768
        op_flags == get_byte(payload, 36)
    IN  [error |-> "",
         battery |->
            [vid |-> get_word(payload, 0),
             pid |-> get_word(payload, 2),
             design_capacity |-> get_word(payload, 4),
             last_full_capacity |-> get_word(payload, 6),
             present_capacity |-> get_word(payload, 8),
             present |-> Bit(get_byte(payload, 10), 1) = 1,
             status_name |-> (get_byte(payload, 10) \div 4) % 4],
         cable |->
            [is_active |-> Bit(cable_flags, 2) = 1,
             epr_mode_capable |-> Bit(cable_flags, 4) = 1,
             phy_type |-> Bit(cable_flags, 5),
             length |-> (cable_flags \div 64) % 16,
             max_voltage |-> cable_voltage_flags % 4,
             max_current |-> (cable_voltage_flags \div 4) % 4,
             usb_speed |-> cable_speed_flags % 8,
             vid |-> get_word(payload, 14),
             pid |-> get_word(payload, 16)],
         operating |->
            [current |-> op_current,
             voltage |-> op_voltage,
             power |-> RoundHalfEven(op_current * op_voltage, 100),
             pd_revision |-> (op_current_high \div 4) % 4,
             pps_charging_supported |-> Bit(op_flags, 0) = 1,
             has_battery |-> Bit(op_flags, 1) = 1,
             has_emarker |-> Bit(op_flags, 3) = 1],
         status |-> [temperature |-> get_byte(payload, 33)]]

\* parse_port_pd_status_response on the first n bytes of a full payload
ParsePortPdStatus(full, n) ==
    /\ called = <<>>
    /\ called' = << [fn |-> "parse_port_pd_status_response", full |-> full,
                     payload |-> SubSeq(full, 1, n)] >>
    /\ returned' = parse_port_pd_status_response(SubSeq(full, 1, n))
    /\ UNCHANGED << notParse >>

\* PROTOCOL_NAMES: name :> (byte_idx, bit_idx), through ProtocolBits
PROTOCOL_NAMES ==
    ("TFCP" :> << 0, 0 >>) @@ ("PE" :> << 0, 1 >>) @@
    ("QC2.0" :> << 0, 2 >>) @@ ("QC3.0" :> << 0, 3 >>) @@
    ("QC3+" :> << 0, 4 >>) @@ ("AFC" :> << 0, 5 >>) @@
    ("FCP" :> << 0, 6 >>) @@ ("HV_SCP" :> << 0, 7 >>) @@
    ("LV_SCP" :> << 1, 0 >>) @@ ("SFCP" :> << 1, 1 >>) @@
    ("Apple 5V" :> << 1, 2 >>) @@ ("Samsung 5V" :> << 1, 3 >>) @@
    ("BC1.2" :> << 1, 4 >>) @@ ("UFCS" :> << 1, 5 >>) @@
    ("RPi 5V5A" :> << 1, 6 >>) @@ ("VOOC" :> << 1, 7 >>) @@
    ("PD" :> << 2, 0 >>) @@ ("PPS" :> << 2, 1 >>) @@
    ("QC4.0" :> << 2, 2 >>) @@ ("QC4+" :> << 2, 3 >>) @@
    ("Dash/Warp" :> << 2, 4 >>) @@ ("SFC" :> << 2, 5 >>) @@
    ("MTK PE" :> << 2, 6 >>) @@ ("MTK PE+" :> << 2, 7 >>)

\* the sum of 2^k over the bits k of a set: the bits or-ed together
RECURSIVE OrBits(_)
OrBits(ks) ==
    IF ks = {} THEN 0
    ELSE LET k == CHOOSE x \in ks : TRUE IN 2^k + OrBits(ks \ {k})

\* the bits of byte_idx that encode_protocols sets for a dict
FeatureBits(protocols, byte_idx) ==
    { PROTOCOL_NAMES[name][2] :
        name \in { x \in DOMAIN protocols \cap DOMAIN PROTOCOL_NAMES :
                     protocols[x] /\ PROTOCOL_NAMES[x][1] = byte_idx } }

encode_protocols_assign(protocols) ==
    [b \in 1..3 |->
        LET ks == FeatureBits(protocols, b - 1)
        IN  IF ks = {} THEN 0
            ELSE 2^(CHOOSE k \in ks : \A j \in ks : j <= k)]

\* encode_protocols(protocols): features[byte_idx] |= (1 << bit_idx)
encode_protocols(protocols) ==
    [b \in 1..3 |-> OrBits(FeatureBits(protocols, b - 1))]

\* decode_protocols(data): data padded with zero bytes to 3 bytes
decode_protocols(data) ==
    LET padded == IF Len(data) < 3
                  THEN data \o [i \in 1..(3 - Len(data)) |-> 0]
                  ELSE data
    IN  [name \in DOMAIN PROTOCOL_NAMES |->
            Bit(padded[PROTOCOL_NAMES[name][1] + 1],
                PROTOCOL_NAMES[name][2]) = 1]

\* the dicts and configuration words tried
SampleNames == {"PD", "QC3.0", "PE", "AFC", "MTK PE+", "Turbo"}
ProtocolDicts ==
    { [name \in D |-> name \in E] : D \in SUBSET SampleNames,
                                   E \in SUBSET SampleNames }
        \cup { [name \in DOMAIN PROTOCOL_NAMES |-> TRUE] }
ByteSamples == {0, 1, 85, 128, 170, 255}
ConfigWords == [1..3 -> ByteSamples]

\* decode_protocols(encode_protocols(p))
DecodeEncoded(p) ==
    /\ called = <<>>
    /\ called' = << [fn |-> "decode_protocols(encode_protocols)",
                     protocols |-> p, word |-> encode_protocols(p)] >>
    /\ returned' = decode_protocols(encode_protocols(p))
    /\ UNCHANGED << notParse >>

\* encode_protocols(decode_protocols(b))
EncodeDecoded(b) ==
    /\ called = <<>>
    /\ called' = << [fn |-> "encode_protocols(decode_protocols)",
                     word |-> b, protocols |-> decode_protocols(b)] >>
    /\ returned' = encode_protocols(decode_protocols(b))
    /\ UNCHANGED << notParse >>

\* parse_port_config_response: the port and the feature word; the hex
\* string is kept as its bytes and the list of names is left out
parse_port_config_response(payload) ==
    IF Len(payload) < 4 THEN [error |-> "Response too short"]
    ELSE [port_id |-> payload[1], power_features |-> SubSeq(payload, 2, 4)]

\* handle_enable_protocol (enabled) and handle_disable_protocol (~enabled)
\* from the GET_PORT_CONFIG response to the payload of SET_PORT_CONFIG
set_protocol_payload(port_id, protocol_name, enabled, payload) ==
    LET protocols == [decode_protocols(payload) EXCEPT ![protocol_name] = enabled]
        features == encode_protocols(protocols)
    IN  << 2^port_id >> \o features

\* the GET_PORT_CONFIG responses tried: the port and a feature word
ConfigResponses == { << port_id >> \o word : port_id \in {0, 1}, word \in ConfigWords }
ToggledNames == {"PD", "PE"}

\* handle_enable_protocol / handle_disable_protocol with the device
\* answering GET_PORT_CONFIG with payload
SetProtocol(protocol_name, enabled, payload) ==
    /\ called = <<>>
    /\ protocol_name \in DOMAIN PROTOCOL_NAMES
    /\ called' = << [fn |-> "set_protocol", protocol |-> protocol_name,
                     enabled |-> enabled, payload |-> payload] >>
    /\ returned' = set_protocol_payload(payload[1], protocol_name, enabled, payload)
    /\ UNCHANGED << notParse >>

ParseNext ==
    \/ \E name \in ToggledNames, e \in BOOLEAN, payload \in ConfigResponses :
          SetProtocol(name, e, payload)
    \/ \E b \in BOOLEAN, c \in PortPayloads : ParsePortStatistics(b, c)
    \/ \E f \in PdPayloads, n \in 0..PdFullLen : ParsePortPdStatus(f, n)
    \/ \E p \in ProtocolDicts : DecodeEncoded(p)
    \/ \E b \in ConfigWords : EncodeDecoded(b)

(***************************************************************************)
(* Part X.  GatewayDataStore with the whole GatewayInfo record: what each  *)
(* update_* method does to the fields.  A message is a dict: a function    *)
(* whose domain is the keys it carries.  power_w is in hundredths of a     *)
(* watt, so round(total_power, 2) is the sum itself.                       *)
(***************************************************************************)
notStore == << bleVars, mqVars, codecVars, onVars, pushVars, authVars, histVars,
              dispVars, parseVars, reconVars,
               bruteVars, renewVars,
             journalVars, pathVars,
             busVars,
             loopVars, idVars >>

\* dict.get(key, default)
Get(dict, key, default) == IF key \in DOMAIN dict THEN dict[key] ELSE default

\* a dict entry that may be missing
Opt(present, key, value) ==
    IF present THEN (key :> value) ELSE [k \in {} |-> 0]

\* the messages gateways send
InfoMessages ==
    { Opt(n, "device_name", "CP02") @@ Opt(f, "firmware_version", "1.2")
        @@ Opt(u, "uptime", 60) : n \in BOOLEAN, f \in BOOLEAN, u \in BOOLEAN }
HeartbeatMessages ==
    { Opt(u, "uptime", 120) @@ Opt(r, "rssi", -50)
        @@ Opt(c # "absent", "connected", c = "true") :
        u \in BOOLEAN, r \in BOOLEAN, c \in {"absent", "true", "false"} }
StatusMessages ==
    { Opt(c # "absent", "connected", c = "true")
        @@ Opt(n, "device_name", "CP02-B") :
        c \in {"absent", "true", "false"}, n \in BOOLEAN }
PortDicts ==
    { ("port_id" :> i) @@ ("current" :> c[1]) @@ ("power" :> c[2]) :
        i \in 0..MaxPortId, c \in { << 0, 0 >>, << 500, 1000 >> } }
\* ports_data: a list of port dicts, no port twice
PortMessages ==
    { m \in UNION { [1..n -> PortDicts] : n \in 0..(MaxPortId + 1) } :
        \A i, j \in DOMAIN m : i # j => m[i]["port_id"] # m[j]["port_id"] }

\* no record for the gateway yet
NoRecord == [gateway_id |-> ""]

StoreInit ==
    /\ gw_store = [g \in Gateways |-> NoRecord]
    /\ notified = <<>>
    /\ uclock = 0
    /\ upd = <<>>

\* GatewayInfo(gateway_id=gateway_id) with the defaults of the dataclass
GatewayRecord(gateway_id) ==
    [gateway_id |-> gateway_id, device_name |-> "", device_address |-> "",
     firmware_version |-> "", model |-> "", serial |-> "",
     uptime_seconds |-> 0, rssi |-> 0, connected |-> FALSE,
     last_heartbeat |-> uclock, ports |-> << >>, total_power |-> 0,
     active_ports |-> 0]

\* gw = self._gateways[gateway_id], created if missing
Found(gateway_id) ==
    IF gw_store[gateway_id] = NoRecord THEN GatewayRecord(gateway_id)
    ELSE gw_store[gateway_id]

\* PortData(...) of a port dict
PortData(port_data) ==
    [port_id |-> Get(port_data, "port_id", 0),
     current_ma |-> Get(port_data, "current", 0),
     power_w |-> Get(port_data, "power", 0),
     updated_at |-> uclock]

\* gw.ports after the loop of update_ports: gw.ports[port_id] = port
RECURSIVE PutPorts(_, _)
PutPorts(ports, ports_data) ==
    IF ports_data = <<>> THEN ports
    ELSE LET port == PortData(Head(ports_data))
             others == [p \in DOMAIN ports \ {port.port_id} |-> ports[p]]
         IN  PutPorts((port.port_id :> port) @@ others, Tail(ports_data))

RECURSIVE SumPowerW(_)
SumPowerW(ports_data) ==
    IF ports_data = <<>> THEN 0
    ELSE PortData(Head(ports_data)).power_w + SumPowerW(Tail(ports_data))

\* the record is stored, subscribers are notified, the clock moves on
Updated(fn, gateway_id, message, gw, event_type) ==
    /\ Len(notified) < MaxUpdates
    /\ gw_store' = [gw_store EXCEPT ![gateway_id] = gw]
    /\ notified' = Append(notified, [gateway_id |-> gateway_id,
                                     event_type |-> event_type, data |-> gw])
    /\ upd' = << [fn |-> fn, gateway_id |-> gateway_id, message |-> message,
                  known |-> gw_store[gateway_id] # NoRecord,
                  before |-> Found(gateway_id), at |-> uclock] >>
    /\ uclock' = uclock + 1

\* GatewayDataStore.update_ports(gateway_id, ports_data)
StoreUpdatePorts(gateway_id, ports_data) ==
    /\ LET gw == Found(gateway_id)
           active == { i \in DOMAIN ports_data :
                         PortData(ports_data[i]).current_ma > 0 }
       IN  Updated("update_ports", gateway_id, ports_data,
                   [gw EXCEPT !.ports = PutPorts(gw.ports, ports_data),
                              !.total_power = SumPowerW(ports_data),
                              !.active_ports = Cardinality(active),
                              !.connected = TRUE],
                   "ports")
    /\ UNCHANGED notStore

\* GatewayDataStore.update_device_info(gateway_id, info)
StoreUpdateDeviceInfo(gateway_id, info) ==
    /\ LET gw == Found(gateway_id)
       IN  Updated("update_device_info", gateway_id, info,
                   [gw EXCEPT
                      !.device_name = Get(info, "device_name", @),
                      !.device_address = Get(info, "device_address", @),
                      !.firmware_version = Get(info, "firmware_version", @),
                      !.model = Get(info, "model", @),
                      !.serial = Get(info, "serial", @),
                      !.uptime_seconds = Get(info, "uptime", @),
                      !.connected = TRUE],
                   "device_info")
    /\ UNCHANGED notStore

\* GatewayDataStore.update_heartbeat(gateway_id, heartbeat)
StoreUpdateHeartbeat(gateway_id, heartbeat) ==
    /\ LET gw == Found(gateway_id)
       IN  Updated("update_heartbeat", gateway_id, heartbeat,
                   [gw EXCEPT
                      !.last_heartbeat = uclock,
                      !.uptime_seconds = Get(heartbeat, "uptime", @),
                      !.rssi = Get(heartbeat, "rssi", @),
                      !.connected = Get(heartbeat, "connected", TRUE)],
                   "heartbeat")
    /\ UNCHANGED notStore

\* GatewayDataStore.update_status(gateway_id, status)
StoreUpdateStatus(gateway_id, status) ==
    /\ LET gw == Found(gateway_id)
       IN  Updated("update_status", gateway_id, status,
                   [gw EXCEPT
                      !.connected = Get(status, "connected", FALSE),
                      !.device_name = Get(status, "device_name", @),
                      !.device_address = Get(status, "device_address", @)],
                   "status")
    /\ UNCHANGED notStore

StoreNext ==
    \/ \E g \in Gateways, m \in PortMessages : StoreUpdatePorts(g, m)
    \/ \E g \in Gateways, m \in InfoMessages : StoreUpdateDeviceInfo(g, m)
    \/ \E g \in Gateways, m \in HeartbeatMessages : StoreUpdateHeartbeat(g, m)
    \/ \E g \in Gateways, m \in StatusMessages : StoreUpdateStatus(g, m)

(***************************************************************************)
(* Part XI.  The reconnect counter (ble_manager.py): auto_reconnect in its *)
(* three stretches between awaits, run by two callers, and the connect of  *)
(* handle_connect.  The radio decides every connection attempt; an         *)
(* enumeration finds a token only while the session is up.                 *)
(***************************************************************************)
RcTasks == {"t1", "t2"}
DialOutcomes == {"notfound", "error", "ok"}

notRecon == << bleVars, mqVars, codecVars, onVars, pushVars, authVars, histVars,
              dispVars, parseVars, storeVars,
               bruteVars, renewVars,
             journalVars, pathVars,
             busVars,
             loopVars, idVars >>

ReconInit ==
    /\ rc_attempts = 0
    /\ rc_enabled = TRUE
    /\ rc_device = FALSE
    /\ rc_linked = FALSE
    /\ rc_stored = FALSE
    /\ rc_pc = [t \in RcTasks |-> "idle"]
    /\ rc_failed = 0
    /\ rc_calls = 0
    /\ rc_last = [fn |-> "", dial |-> "none", returned |-> "",
                  attempts |-> 0]

\* what a step leaves in rc_last
Step(fn, dial, result) ==
    rc_last' = [fn |-> fn, dial |-> dial, returned |-> result,
                attempts |-> rc_attempts]

\* if self._reconnect_attempts >= self._max_reconnect_attempts
at_limit(attempts) == attempts >= max_reconnect_attempts

\* auto_reconnect up to `await self.disconnect()` and the sleep
auto_reconnect(t) ==
    /\ rc_pc[t] = "idle"
    /\ rc_calls < MaxReconnects
    /\ rc_calls' = rc_calls + 1
    /\ IF ~rc_enabled \/ at_limit(rc_attempts)
       THEN /\ Step("auto_reconnect", "none", "false")
            /\ UNCHANGED << rc_attempts, rc_linked, rc_pc >>
       ELSE /\ rc_attempts' = rc_attempts + 1
            /\ rc_linked' = FALSE
            /\ rc_pc' = [rc_pc EXCEPT ![t] = "sleep"]
            /\ Step("auto_reconnect", "none", "")
    /\ UNCHANGED << rc_enabled, rc_device, rc_stored, rc_failed, notRecon >>

\* BLEManager.connect as the radio lets it end
connect(outcome) ==
    /\ rc_device' = (rc_device \/ outcome # "notfound")
    /\ rc_linked' = CASE outcome = "notfound" -> rc_linked
                      [] outcome = "error" -> FALSE
                      [] outcome = "ok" -> TRUE

\* auto_reconnect from `if self.device:` to the stored token
auto_reconnect_connect(t, outcome) ==
    /\ rc_pc[t] = "sleep"
    /\ IF ~rc_device
       THEN /\ Step("auto_reconnect", "none", "false")
            /\ rc_pc' = [rc_pc EXCEPT ![t] = "idle"]
            /\ UNCHANGED << rc_attempts, rc_device, rc_linked, rc_failed >>
       ELSE /\ connect(outcome)
            /\ IF outcome = "ok"
               THEN /\ rc_attempts' = 0
                    /\ rc_failed' = 0
                    /\ IF rc_stored
                       THEN /\ Step("auto_reconnect", "ok", "true")
                            /\ rc_pc' = [rc_pc EXCEPT ![t] = "idle"]
                       ELSE /\ Step("auto_reconnect", "ok", "")
                            /\ rc_pc' = [rc_pc EXCEPT ![t] = "bruteforce"]
               ELSE /\ rc_failed' = rc_failed + 1
                    /\ Step("auto_reconnect", "failed", "false")
                    /\ rc_pc' = [rc_pc EXCEPT ![t] = "idle"]
                    /\ UNCHANGED rc_attempts
    /\ UNCHANGED << rc_enabled, rc_stored, rc_calls, notRecon >>

\* auto_reconnect after `token = await self.bruteforce_token(...)`
auto_reconnect_token(t, found) ==
    /\ rc_pc[t] = "bruteforce"
    /\ found # None => rc_linked
    /\ rc_stored' = (rc_stored \/ found # None)
    /\ IF found # None /\ found # 0
       THEN /\ rc_attempts' = 0
            /\ Step("auto_reconnect", "none", "true")
       ELSE /\ Step("auto_reconnect", "none", "false")
            /\ UNCHANGED rc_attempts
    /\ rc_pc' = [rc_pc EXCEPT ![t] = "idle"]
    /\ UNCHANGED << rc_enabled, rc_device, rc_linked, rc_failed, rc_calls,
                    notRecon >>

\* handle_connect: connect(address), then the token
explicit_connect(outcome, found) ==
    /\ rc_calls < MaxReconnects
    /\ rc_calls' = rc_calls + 1
    /\ connect(outcome)
    /\ IF outcome = "ok"
       THEN /\ rc_attempts' = 0
            /\ rc_failed' = 0
            /\ rc_stored' = (rc_stored \/ found # None)
            /\ Step("connect", "ok", "true")
       ELSE /\ Step("connect", "failed", "false")
            /\ UNCHANGED << rc_attempts, rc_failed, rc_stored >>
    /\ UNCHANGED << rc_enabled, rc_pc, notRecon >>

\* handle_set_auto_reconnect: enable_auto_reconnect(enabled)
set_auto_reconnect(enabled) ==
    /\ rc_enabled # enabled
    /\ rc_enabled' = enabled
    /\ Step("enable_auto_reconnect", "none", "")
    /\ UNCHANGED << rc_attempts, rc_device, rc_linked, rc_stored, rc_pc,
                    rc_failed, rc_calls, notRecon >>

ReconNext ==
    \/ \E t \in RcTasks : auto_reconnect(t)
    \/ \E t \in RcTasks, o \in DialOutcomes : auto_reconnect_connect(t, o)
    \/ \E t \in RcTasks, f \in {None} \cup DevTokens :
          auto_reconnect_token(t, f)
    \/ \E o \in DialOutcomes, f \in {None} \cup DevTokens :
          explicit_connect(o, f)
    \/ \E e \in BOOLEAN : set_auto_reconnect(e)

(***************************************************************************)
(* Part XII.  The token enumeration (ble_manager.py): bruteforce_token     *)
(* followed probe by probe up to TokenRange, against a device that accepts *)
(* one token or none.  Between two enumerations a handler may set a token  *)
(* by hand, the session may be closed and opened and the device may start  *)
(* again with another token; during an enumeration the link may drop.      *)
(***************************************************************************)
notBrute == << bleVars, mqVars, codecVars, onVars, pushVars, authVars, histVars,
               dispVars, parseVars, storeVars, reconVars,
               renewVars, journalVars, pathVars,
             busVars,
             loopVars, idVars >>

DeviceChoices == {None, 0, TokenRange - 1}
NoResponse == [service |-> 0, size |-> -1]

BruteInit ==
    /\ bt_pc = "idle"
    /\ bt_candidate = None
    /\ bt_response = NoResponse
    /\ bt_probes = <<>>
    /\ bt_token = None
    /\ bt_acquiring = FALSE
    /\ bt_storage = None
    /\ bt_linked = FALSE
    /\ bt_device = None
    /\ bt_returned = <<>>

\* What the device sends back for a probe: the response to a token it
\* accepts carries the model name; a token it does not accept gets no
\* response within the timeout, or a response without payload.
ProbeResponses(candidate) ==
    IF bt_device = candidate
    THEN { [service |-> GET_DEVICE_MODEL - 128, size |-> 1] }
    ELSE { NoResponse, [service |-> GET_DEVICE_MODEL - 128, size |-> 0] }

\* for token in range(256): the loop is over
range_exhausted_early(candidate) == candidate >= TokenRange - 1
range_exhausted(candidate) == candidate >= TokenRange

\* if response and response.service < 0 and response.size > 0
probe_succeeded(response) ==
    response # NoResponse /\ response.service < 0 /\ response.size > 0

\* bruteforce_token up to its first await: the early return while an
\* enumeration is running, or start_acquiring and the first candidate.
bruteforce_token ==
    /\ IF bt_acquiring
       THEN /\ bt_returned' = << bt_token >>
            /\ UNCHANGED << bt_pc, bt_candidate, bt_probes, bt_acquiring >>
       ELSE /\ bt_pc = "idle"
            /\ bt_acquiring' = TRUE
            /\ bt_candidate' = 0
            /\ bt_probes' = <<>>
            /\ bt_returned' = <<>>
            /\ bt_pc' = "loop"
    /\ UNCHANGED << bt_response, bt_token, bt_storage, bt_linked, bt_device,
                    notBrute >>

\* The head of the loop: the next send_command, which writes the probe
\* frame when the session is connected and returns None otherwise; after
\* the last candidate, return None through finally: stop_acquiring().
bruteforce_loop ==
    /\ bt_pc = "loop"
    /\ IF range_exhausted(bt_candidate)
       THEN /\ bt_acquiring' = FALSE
            /\ bt_returned' = << None >>
            /\ bt_candidate' = None
            /\ bt_pc' = "idle"
            /\ UNCHANGED << bt_response, bt_probes >>
       ELSE /\ IF bt_linked
               THEN /\ bt_probes' = Append(bt_probes, bt_candidate)
                    /\ \E r \in ProbeResponses(bt_candidate) : bt_response' = r
               ELSE /\ bt_response' = NoResponse
                    /\ UNCHANGED bt_probes
            /\ bt_pc' = "check"
            /\ UNCHANGED << bt_acquiring, bt_returned, bt_candidate >>
    /\ UNCHANGED << bt_token, bt_storage, bt_linked, bt_device, notBrute >>

\* The test of the response: set_token, _save_token_to_storage and return
\* token, or asyncio.sleep(0.02).
bruteforce_check ==
    /\ bt_pc = "check"
    /\ IF probe_succeeded(bt_response)
       THEN /\ bt_token' = bt_candidate
            /\ bt_storage' = bt_candidate
            /\ bt_acquiring' = FALSE
            /\ bt_returned' = << bt_candidate >>
            /\ bt_candidate' = None
            /\ bt_pc' = "idle"
       ELSE /\ bt_pc' = "sleep"
            /\ UNCHANGED << bt_token, bt_storage, bt_acquiring, bt_returned,
                            bt_candidate >>
    /\ bt_response' = NoResponse
    /\ UNCHANGED << bt_probes, bt_linked, bt_device, notBrute >>

\* The sleep is over: the next candidate of range(256).
bruteforce_next ==
    /\ bt_pc = "sleep"
    /\ bt_candidate' = bt_candidate + 1
    /\ bt_pc' = "loop"
    /\ UNCHANGED << bt_response, bt_probes, bt_token, bt_acquiring, bt_storage,
                    bt_linked, bt_device, bt_returned, notBrute >>

\* manual_set_token between two enumerations.
brute_manual_set_token(t) ==
    /\ bt_pc = "idle"
    /\ bt_token' = t
    /\ bt_storage' = t
    /\ bt_acquiring' = FALSE
    /\ UNCHANGED << bt_pc, bt_candidate, bt_response, bt_probes, bt_linked,
                    bt_device, bt_returned, notBrute >>

\* The link drops during one of the first probes of an enumeration;
\* disconnect and connect between two enumerations close and open the
\* session, disconnect invalidating the token.
brute_link(up) ==
    /\ IF up
       THEN /\ bt_pc = "idle" /\ ~bt_linked
            /\ UNCHANGED << bt_token, bt_acquiring >>
       ELSE /\ bt_linked
            /\ bt_pc = "idle" \/ bt_candidate <= MaxDropAt
            /\ IF bt_pc = "idle"
               THEN bt_token' = None /\ bt_acquiring' = FALSE
               ELSE UNCHANGED << bt_token, bt_acquiring >>
    /\ bt_linked' = up
    /\ UNCHANGED << bt_pc, bt_candidate, bt_response, bt_probes, bt_storage,
                    bt_device, bt_returned, notBrute >>

\* The device starts again and accepts another token, or none.
device_restart(d) ==
    /\ bt_pc = "idle"
    /\ bt_device # d
    /\ bt_device' = d
    /\ UNCHANGED << bt_pc, bt_candidate, bt_response, bt_probes, bt_token,
                    bt_acquiring, bt_storage, bt_linked, bt_returned, notBrute >>

BruteNext ==
    \/ bruteforce_token
    \/ bruteforce_loop
    \/ bruteforce_check
    \/ bruteforce_next
    \/ \E t \in ManualTokens : brute_manual_set_token(t)
    \/ \E up \in BOOLEAN : brute_link(up)
    \/ \E d \in DeviceChoices : device_restart(d)

(***************************************************************************)
(* Part XIII.  Token renewal (ble_manager.py).  The manager is a record    *)
(* and each method a function from the record before the call to the       *)
(* record after it, ret holding what the call returned.  The clock counts  *)
(* in ticks: age is the time since last_refresh and timer the time left of *)
(* the refresh task's sleep (None: no token stamped, no task running).     *)
(* The device is in range and answers: connect succeeds, a frame with the  *)
(* token the device accepts is answered, a frame with another token is not *)
(* answered within the timeout or is answered without payload.             *)
(***************************************************************************)
notRenew == << bleVars, mqVars, codecVars, onVars, pushVars, authVars, histVars,
               dispVars, parseVars, storeVars, reconVars, bruteVars,
               journalVars, pathVars,
             busVars,
             loopVars, idVars >>

WrongTokenResponses == {"none", "empty"}

\* BLEManager.__init__ and TokenManager.__init__; the storage file is empty
RenewInit ==
    /\ mgr = [token |-> None, age |-> None, stored |-> None, device |-> FALSE,
              linked |-> FALSE, timer |-> None, attempts |-> 0, ret |-> None]
    /\ lock = 0
    /\ rotations = 0
    /\ enumerated = FALSE

\* TokenManager.should_refresh (no enumeration is running between two steps)
should_refresh_of(m) ==
    IF m.token = None THEN TRUE
    ELSE IF m.age = None THEN TRUE
    ELSE m.age > RenewTicks

\* TokenManager.set_token
set_token_in(m, t) == [m EXCEPT !.token = t, !.age = 0]

\* BLEManager.bruteforce_token against the device: on a connected session
\* the probe with the device's token is answered and every probe before it
\* is not; on a session not connected every send_command returns None.
bruteforce_token_in(m) ==
    IF m.linked
    THEN [set_token_in(m, lock) EXCEPT !.stored = lock, !.ret = lock]
    ELSE [m EXCEPT !.ret = None]

\* BLEManager.ensure_token
ensure_token_in(m) ==
    IF m.token # None /\ ~should_refresh_of(m)
    THEN [m EXCEPT !.ret = m.token]
    ELSE IF m.device /\ m.stored # None
    THEN [set_token_in(m, m.stored) EXCEPT !.ret = m.stored]
    ELSE IF should_refresh_of(m)
    THEN LET after == bruteforce_token_in(m) IN [after EXCEPT !.ret = after.token]
    ELSE [m EXCEPT !.ret = m.token]

\* whether ensure_token goes through bruteforce_token
ensure_token_enumerates(m) ==
    /\ ~(m.token # None /\ ~should_refresh_of(m))
    /\ ~(m.device /\ m.stored # None)
    /\ should_refresh_of(m)

\* BLEManager.disconnect: stop_auto_refresh_task, the session closed,
\* token_manager.invalidate()
disconnect_in(m) ==
    [m EXCEPT !.timer = None, !.linked = FALSE, !.token = None, !.age = None]

\* BLEManager.connect to the device in range: start_auto_refresh_task
\* starts the task unless one is running
connect_in(m) ==
    [m EXCEPT !.device = TRUE, !.linked = TRUE, !.attempts = 0,
              !.timer = IF m.timer = None THEN RenewTicks ELSE m.timer]

\* BLEManager.auto_reconnect; ret is 1 for True and 0 for False
auto_reconnect_in(m) ==
    IF m.attempts >= max_reconnect_attempts
    THEN [m EXCEPT !.ret = 0]
    ELSE LET counted == [m EXCEPT !.attempts = m.attempts + 1]
             closed == disconnect_in(counted)
         IN  IF ~closed.device
             THEN [closed EXCEPT !.ret = 0]
             ELSE LET opened == connect_in(closed) IN
                  IF opened.stored # None
                  THEN [set_token_in(opened, opened.stored)
                           EXCEPT !.attempts = 0, !.ret = 1]
                  ELSE LET probed == bruteforce_token_in(opened) IN
                       IF probed.ret # None /\ probed.ret # 0
                       THEN [probed EXCEPT !.attempts = 0, !.ret = 1]
                       ELSE [probed EXCEPT !.ret = 0]

\* whether auto_reconnect goes through bruteforce_token
auto_reconnect_enumerates(m) ==
    /\ m.attempts < max_reconnect_attempts
    /\ m.device
    /\ m.stored = None

\* BLEManager.send_command with the token as payload: 1 when the device
\* answers the command, 0 for a response without payload, None for no
\* response
send_command_in(m, t, wrong) ==
    IF ~m.linked THEN None
    ELSE IF t = lock THEN 1
    ELSE IF wrong = "empty" THEN 0 ELSE None

\* BLEManager.execute(service) with needs_token and auto_reconnect; ret is
\* the response
execute_in(m, wrong) ==
    LET ensured == ensure_token_in(m) IN
    IF ensured.ret = None THEN ensured
    ELSE LET response == send_command_in(ensured, ensured.ret, wrong) IN
         IF response # None THEN [ensured EXCEPT !.ret = response]
         ELSE LET again == auto_reconnect_in(ensured) IN
              IF again.ret # 1 THEN [again EXCEPT !.ret = None]
              ELSE LET retoken == ensure_token_in(again) IN
                   IF retoken.ret = None THEN retoken
                   ELSE [retoken EXCEPT
                           !.ret = send_command_in(retoken, retoken.ret, wrong)]

\* whether execute goes through bruteforce_token
execute_enumerates(m, wrong) ==
    LET ensured == ensure_token_in(m) IN
    \/ ensure_token_enumerates(m)
    \/ /\ ensured.ret # None
       /\ send_command_in(ensured, ensured.ret, wrong) = None
       /\ \/ auto_reconnect_enumerates(ensured)
          \/ LET again == auto_reconnect_in(ensured) IN
             again.ret = 1 /\ ensure_token_enumerates(again)

\* handle_connect without token and without bruteforce: connect, then
\* ensure_token
renew_handle_connect ==
    /\ ~mgr.linked
    /\ mgr' = ensure_token_in(connect_in(mgr))
    /\ enumerated' = ensure_token_enumerates(connect_in(mgr))
    /\ UNCHANGED << lock, rotations, notRenew >>

\* A command handler of the WebSocket endpoint: execute.
renew_execute(wrong) ==
    /\ mgr' = execute_in(mgr, wrong)
    /\ enumerated' = execute_enumerates(mgr, wrong)
    /\ UNCHANGED << lock, rotations, notRenew >>

\* _auto_refresh_loop when its sleep is over
renew_auto_refresh ==
    /\ mgr.timer = 0
    /\ LET due == should_refresh_of(mgr) /\ mgr.linked
           after == IF due THEN bruteforce_token_in(mgr) ELSE mgr
       IN  /\ mgr' = [after EXCEPT !.timer = RenewTicks]
           /\ enumerated' = due
    /\ UNCHANGED << lock, rotations, notRenew >>

\* One tick of the clock.  A sleep that is over wakes its task first.
renew_tick ==
    /\ mgr.timer # 0
    /\ mgr' = [mgr EXCEPT
                 !.age = IF @ = None THEN None
                         ELSE IF @ > RenewTicks THEN @ ELSE @ + 1,
                 !.timer = IF @ = None THEN None ELSE @ - 1]
    /\ enumerated' = FALSE
    /\ UNCHANGED << lock, rotations, notRenew >>

\* The device replaces its token.
device_rotates(t) ==
    /\ rotations < MaxRotations
    /\ t # lock
    /\ lock' = t
    /\ rotations' = rotations + 1
    /\ enumerated' = FALSE
    /\ UNCHANGED << mgr, notRenew >>

RenewNext ==
    \/ renew_handle_connect
    \/ \E w \in WrongTokenResponses : renew_execute(w)
    \/ renew_auto_refresh
    \/ renew_tick
    \/ \E t \in DevTokens : device_rotates(t)

(***************************************************************************)
(* Part XIV.  The events of the gateway backend (app.py).  The data store  *)
(* notifies its subscriber on_gateway_update, which creates the broadcast  *)
(* task and records status and timeout events; gateway_timeout_checker     *)
(* calls broadcast_update itself.  expired is                              *)
(* now - last_heartbeat > timeout_threshold, which the passing of time     *)
(* makes true and a heartbeat false.                                       *)
(***************************************************************************)
notJournal == << bleVars, mqVars, codecVars, onVars, pushVars, authVars, histVars,
                 dispVars, parseVars, storeVars, reconVars, bruteVars, renewVars,
                 pathVars, busVars,
             loopVars, idVars >>

JournalInit ==
    /\ jr_gateways = [g \in Gateways |->
                        [known |-> FALSE, connected |-> FALSE, expired |-> FALSE]]
    /\ jr_pushed = <<>>
    /\ jr_rows = <<>>

Event(gateway_id, event_type) == [gateway_id |-> gateway_id, event_type |-> event_type]

\* on_gateway_update(gateway_id, event_type, data): what it adds to the
\* rows of gateway_events through history_store.record_event
recorded_by_subscriber(gateway_id, event_type) ==
    IF event_type \in {"status", "timeout"}
    THEN << Event(gateway_id, event_type) >>
    ELSE <<>>

\* GatewayDataStore.update_status and _notify_subscribers
journal_update_status(gateway_id, c) ==
    /\ Len(jr_pushed) < MaxJournal
    /\ jr_gateways' = [jr_gateways EXCEPT ![gateway_id].known = TRUE,
                                          ![gateway_id].connected = c]
    /\ jr_pushed' = Append(jr_pushed, Event(gateway_id, "status"))
    /\ jr_rows' = jr_rows \o recorded_by_subscriber(gateway_id, "status")
    /\ UNCHANGED notJournal

\* GatewayDataStore.update_heartbeat and _notify_subscribers
journal_update_heartbeat(gateway_id, c) ==
    /\ Len(jr_pushed) < MaxJournal
    /\ jr_gateways' = [jr_gateways EXCEPT ![gateway_id] =
                         [known |-> TRUE, connected |-> c, expired |-> FALSE]]
    /\ jr_pushed' = Append(jr_pushed, Event(gateway_id, "heartbeat"))
    /\ jr_rows' = jr_rows \o recorded_by_subscriber(gateway_id, "heartbeat")
    /\ UNCHANGED notJournal

\* One pass of gateway_timeout_checker that finds gateway_id connected and
\* its heartbeat too old: await broadcast_update(gateway_id, "timeout", ...)
journal_timeout_checker(gateway_id) ==
    /\ Len(jr_pushed) < MaxJournal
    /\ jr_gateways[gateway_id].known
    /\ jr_gateways[gateway_id].connected
    /\ jr_gateways[gateway_id].expired
    /\ jr_gateways' = [jr_gateways EXCEPT ![gateway_id].connected = FALSE]
    /\ jr_pushed' = Append(jr_pushed, Event(gateway_id, "timeout"))
    /\ UNCHANGED << jr_rows, notJournal >>

\* More than gateway_timeout_seconds have passed since the heartbeat.
heartbeat_expires(gateway_id) ==
    /\ jr_gateways[gateway_id].known
    /\ ~jr_gateways[gateway_id].expired
    /\ jr_gateways' = [jr_gateways EXCEPT ![gateway_id].expired = TRUE]
    /\ UNCHANGED << jr_pushed, jr_rows, notJournal >>

JournalNext ==
    \/ \E g \in Gateways, c \in BOOLEAN : journal_update_status(g, c)
    \/ \E g \in Gateways, c \in BOOLEAN : journal_update_heartbeat(g, c)
    \/ \E g \in Gateways : journal_timeout_checker(g)
    \/ \E g \in Gateways : heartbeat_expires(g)

(***************************************************************************)
(* Part XV.  The paths that set the token (app.py, ble_manager.py).  A     *)
(* request parameter is a JSON value: null, an integer or a string.        *)
(***************************************************************************)
notPath == << bleVars, mqVars, codecVars, onVars, pushVars, authVars, histVars,
              dispVars, parseVars, storeVars, reconVars, bruteVars, renewVars,
              journalVars, busVars,
             loopVars, idVars >>

JsonNull == [type |-> "null", value |-> 0]
JsonInt(n) == [type |-> "int", value |-> n]
JsonStr == [type |-> "str", value |-> 0]
TokenParams == {JsonNull, JsonStr} \cup { JsonInt(n) : n \in {0, 255, 256} }

PathInit ==
    /\ tp_token = None
    /\ tp_stored = None
    /\ tp_linked = FALSE
    /\ tp_calls = <<>>

PathCall(name, param, outcome) ==
    /\ Len(tp_calls) < MaxTokenCalls
    /\ tp_calls' = Append(tp_calls, [handler |-> name, token |-> param,
                                     outcome |-> outcome])
    /\ UNCHANGED notPath

\* handle_set_manual_token: token is None or not isinstance(token, int) or
\* token < 0 or token > 255
set_manual_token_rejects(param) ==
    \/ param.type = "null"
    \/ param.type # "int"
    \/ param.value < 0
    \/ param.value > 255

\* handle_set_manual_token
path_set_manual_token(param) ==
    /\ IF set_manual_token_rejects(param)
       THEN /\ UNCHANGED tp_token
            /\ PathCall("set_manual_token", param, "rejected")
       ELSE /\ tp_token' = param.value
            /\ PathCall("set_manual_token", param, "set")
    /\ UNCHANGED << tp_stored, tp_linked >>

\* BLEManager.manual_set_token: f"0x{token:02X}" raises for a string; an
\* integer is set and saved
manual_set_token_raises(param) == param.type # "int"

\* handle_connect with params["token"]: connect, then manual_set_token when
\* the token is not None, the enumeration or ensure_token otherwise; found
\* is what the enumeration returns.
path_handle_connect(param, bruteforce, found) ==
    /\ tp_linked' = TRUE
    /\ IF param.type # "null"
       THEN IF manual_set_token_raises(param)
            THEN /\ UNCHANGED << tp_token, tp_stored >>
                 /\ PathCall("connect", param, "raised")
            ELSE /\ tp_token' = param.value
                 /\ tp_stored' = param.value
                 /\ PathCall("connect", param, "set")
       ELSE IF bruteforce \/ (tp_token = None /\ tp_stored = None)
            THEN /\ IF found # None
                    THEN tp_token' = found /\ tp_stored' = found
                    ELSE UNCHANGED << tp_token, tp_stored >>
                 /\ PathCall("connect", param, "enumerated")
            ELSE /\ tp_token' = IF tp_token # None THEN tp_token ELSE tp_stored
                 /\ UNCHANGED tp_stored
                 /\ PathCall("connect", param, "ensured")

\* handle_disconnect: BLEManager.disconnect invalidates the token
path_handle_disconnect ==
    /\ tp_linked
    /\ tp_linked' = FALSE
    /\ tp_token' = None
    /\ UNCHANGED tp_stored
    /\ PathCall("disconnect", JsonNull, "done")

PathNext ==
    \/ \E param \in TokenParams : path_set_manual_token(param)
    \/ \E param \in TokenParams, b \in BOOLEAN, found \in {None} \cup DevTokens :
          path_handle_connect(param, b, found)
    \/ path_handle_disconnect

(***************************************************************************)
(* Part XVI.  The bus adapter (mqtt_client.py): MQTTClient.start as the    *)
(* task the lifespan creates, the broker connection coming up and going    *)
(* down, and send_command.                                                 *)
(***************************************************************************)
notBus == << bleVars, mqVars, codecVars, onVars, pushVars, authVars, histVars,
             dispVars, parseVars, storeVars, reconVars, bruteVars, renewVars,
             journalVars, pathVars, loopVars, idVars >>

BusInit ==
    /\ bus_pc = "idle"
    /\ bus_running = FALSE
    /\ bus_client = FALSE
    /\ bus_broker = FALSE
    /\ bus_pending = {}
    /\ bus_cmds = <<>>
    /\ bus_drops = 0

\* after except: if self._running: await asyncio.sleep(...); then the loop
\* test while self._running
after_error(still_running) == IF still_running THEN "sleeping" ELSE "ended"

\* MQTTClient.start: self._running = True; while self._running: async with
bus_start ==
    /\ bus_pc = "idle"
    /\ bus_running' = TRUE
    /\ bus_pc' = "connecting"
    /\ UNCHANGED << bus_client, bus_broker, bus_pending, bus_cmds, bus_drops,
                    notBus >>

\* async with aiomqtt.Client(...) as client: the connection is made and
\* self._client = client, or MqttError is raised
bus_connect(ok) ==
    /\ bus_pc = "connecting"
    /\ IF ok
       THEN /\ bus_broker' = TRUE
            /\ bus_client' = TRUE
            /\ bus_pc' = "listening"
       ELSE /\ bus_pc' = after_error(bus_running)
            /\ UNCHANGED << bus_broker, bus_client >>
    /\ UNCHANGED << bus_running, bus_pending, bus_cmds, bus_drops, notBus >>

\* The connection is lost while the task reads client.messages: MqttError
\* leaves the async with block and is caught.
bus_connection_lost ==
    /\ bus_pc = "listening"
    /\ bus_drops < MaxBusDrops
    /\ bus_drops' = bus_drops + 1
    /\ bus_broker' = FALSE
    /\ bus_pc' = after_error(bus_running)
    /\ UNCHANGED << bus_running, bus_client, bus_pending, bus_cmds, notBus >>

\* The reconnect wait is over: the next turn of while self._running.
bus_wake ==
    /\ bus_pc = "sleeping"
    /\ bus_pc' = IF bus_running THEN "connecting" ELSE "ended"
    /\ UNCHANGED << bus_running, bus_client, bus_broker, bus_pending, bus_cmds,
                    bus_drops, notBus >>

\* lifespan shutdown: MQTTClient.stop, then the task is cancelled, which
\* closes the connection.
bus_stop ==
    /\ bus_pc \notin {"idle", "ended"}
    /\ bus_running' = FALSE
    /\ bus_client' = FALSE
    /\ bus_broker' = FALSE
    /\ bus_pc' = "ended"
    /\ UNCHANGED << bus_pending, bus_cmds, bus_drops, notBus >>

\* MQTTClient.send_command up to its wait: RuntimeError without a client;
\* otherwise the future is registered and the command published, publish
\* raising on a connection that is down.
bus_send_command ==
    /\ Len(bus_cmds) < MaxBusCmds
    /\ LET cmd_id == Len(bus_cmds) + 1 IN
       IF ~bus_client
       THEN /\ bus_cmds' = Append(bus_cmds, "refused")
            /\ UNCHANGED bus_pending
       ELSE /\ bus_pending' = bus_pending \cup {cmd_id}
            /\ bus_cmds' = Append(bus_cmds, IF bus_broker THEN "published"
                                                          ELSE "raised")
    /\ UNCHANGED << bus_pc, bus_running, bus_client, bus_broker, bus_drops,
                    notBus >>

\* health_check: "mqtt_connected": mqtt_client._client is not None
mqtt_connected == bus_client

BusNext ==
    \/ bus_start
    \/ \E ok \in BOOLEAN : bus_connect(ok)
    \/ bus_connection_lost
    \/ bus_wake
    \/ bus_stop
    \/ bus_send_command

(***************************************************************************)
(* Part XVII.  The dispatch loop of the bus adapter (mqtt_client.py):      *)
(* _handle_message run on each message of client.messages, and the         *)
(* update_* methods of the registry run statement by statement up to the   *)
(* one that raises.  A payload is text that is not JSON, a JSON array, or  *)
(* a JSON object; of an object the fields "connected" and "ports" count.   *)
(***************************************************************************)
notLoop == << bleVars, mqVars, codecVars, onVars, pushVars, authVars, histVars,
              dispVars, parseVars, storeVars, reconVars, bruteVars, renewVars,
              journalVars, pathVars, busVars, idVars >>

LoopTopics == {"ports", "device_info", "heartbeat", "status", "cmd_response"}

\* json: invalid | array | object; connected: true | false | absent;
\* ports: list (one port drawing current) | number | absent
LoopPayloads ==
    [json : {"invalid", "array"}, connected : {"absent"}, ports : {"absent"}]
      \cup [json : {"object"}, connected : {"true", "false", "absent"},
            ports : {"list", "number", "absent"}]

NoGatewayInfo == [present |-> FALSE, connected |-> FALSE,
                  last_heartbeat |-> None, active_ports |-> 0]

LoopInit ==
    /\ lp_gateways = [g \in Gateways |-> NoGatewayInfo]
    /\ lp_events = << >>
    /\ lp_handled = 0
    /\ lp_last = << >>
    /\ lp_clock = 0

\* if gateway_id not in self._gateways:
\*     self._gateways[gateway_id] = GatewayInfo(gateway_id=gateway_id)
with_gateway(gateways, gateway_id) ==
    IF gateways[gateway_id].present THEN gateways
    ELSE [gateways EXCEPT ![gateway_id] =
            [present |-> TRUE, connected |-> FALSE,
             last_heartbeat |-> lp_clock, active_ports |-> 0]]

\* what a handler leaves: the registry, the event it notified ("none" when
\* it raised before _notify_subscribers)
Left(gateways, event) == [gateways |-> gateways, event |-> event]

\* GatewayDataStore.update_ports(gateway_id, ports): iterating a number raises
update_ports_on(gateways, gateway_id, ports) ==
    LET gws == with_gateway(gateways, gateway_id)
    IN  IF ports = "number" THEN Left(gws, "none")
        ELSE Left([gws EXCEPT
                     ![gateway_id].active_ports = IF ports = "list" THEN 1 ELSE 0,
                     ![gateway_id].connected = TRUE], "ports")

\* GatewayDataStore.update_device_info(gateway_id, info): info.get raises on
\* an array
update_device_info_on(gateways, gateway_id, info) ==
    LET gws == with_gateway(gateways, gateway_id)
    IN  IF info.json # "object" THEN Left(gws, "none")
        ELSE Left([gws EXCEPT ![gateway_id].connected = TRUE], "device_info")

\* GatewayDataStore.update_heartbeat(gateway_id, heartbeat): last_heartbeat
\* is assigned before heartbeat.get is first called
update_heartbeat_on(gateways, gateway_id, heartbeat) ==
    LET gws == [with_gateway(gateways, gateway_id) EXCEPT
                  ![gateway_id].last_heartbeat = lp_clock]
    IN  IF heartbeat.json # "object" THEN Left(gws, "none")
        ELSE Left([gws EXCEPT
                     ![gateway_id].connected = (heartbeat.connected # "false")],
                  "heartbeat")

\* GatewayDataStore.update_status(gateway_id, status)
update_status_on(gateways, gateway_id, status) ==
    LET gws == with_gateway(gateways, gateway_id)
    IN  IF status.json # "object" THEN Left(gws, "none")
        ELSE Left([gws EXCEPT
                     ![gateway_id].connected = (status.connected = "true")],
                  "status")

\* GatewayDataStore.handle_command_response(gateway_id, response), the
\* registry side: response.get raises on an array
handle_command_response_on(gateways, gateway_id, response) ==
    IF response.json # "object" THEN Left(gateways, "none")
    ELSE Left(gateways, "cmd_response")

\* MQTTClient._handle_message up to its except clauses
_handle_message(gateways, gateway_id, msg_type, payload) ==
    IF payload.json = "invalid" THEN Left(gateways, "none")
    ELSE CASE msg_type = "ports" ->
                IF payload.json # "object" THEN Left(gateways, "none")
                ELSE update_ports_on(gateways, gateway_id, payload.ports)
           [] msg_type = "device_info" ->
                update_device_info_on(gateways, gateway_id, payload)
           [] msg_type = "heartbeat" ->
                update_heartbeat_on(gateways, gateway_id, payload)
           [] msg_type = "status" ->
                update_status_on(gateways, gateway_id, payload)
           [] msg_type = "cmd_response" ->
                handle_command_response_on(gateways, gateway_id, payload)

\* async for message in client.messages: await self._handle_message(message)
loop_message(gateway_id, msg_type, payload) ==
    /\ lp_handled < MaxLoopMsgs
    /\ LET left == _handle_message(lp_gateways, gateway_id, msg_type, payload)
       IN  /\ lp_gateways' = left.gateways
           /\ lp_events' = IF left.event = "none" THEN lp_events
                           ELSE Append(lp_events, [gateway_id |-> gateway_id,
                                                   event_type |-> left.event])
    /\ lp_handled' = lp_handled + 1
    /\ lp_last' = << [gateway_id |-> gateway_id, msg_type |-> msg_type,
                      payload |-> payload] >>
    /\ lp_clock' = lp_clock + 1
    /\ UNCHANGED notLoop

LoopNext ==
    \E g \in Gateways, t \in LoopTopics, payload \in LoopPayloads :
        loop_message(g, t, payload)

(***************************************************************************)
(* Part XVIII.  The message ID (ble_manager.py): send_command up to its    *)
(* write on one BLEManager object, over enough calls for the ID to come    *)
(* back to 0.  connect and disconnect leave msg_id alone.                  *)
(***************************************************************************)
notId == << bleVars, mqVars, codecVars, onVars, pushVars, authVars, histVars,
            dispVars, parseVars, storeVars, reconVars, bruteVars, renewVars,
            journalVars, pathVars, busVars, loopVars >>

IdPayloads == { << >>, << 0 >> }

IdInit ==
    /\ id_msg_id = 0
    /\ id_linked = FALSE
    /\ id_writes = 0
    /\ id_written = << >>
    /\ id_last = << >>

\* BLEManager.send_command up to write_gatt_char
id_send_command(service, payload) ==
    /\ IF ~id_linked
       THEN /\ id_last' = << [accepted |-> FALSE, before |-> id_msg_id] >>
            /\ UNCHANGED << id_msg_id, id_writes, id_written >>
       ELSE /\ id_writes < MaxIdWrites
            /\ id_msg_id' = next_msg_id(id_msg_id)
            /\ id_written' = build_message(0, id_msg_id', service, 0, ACK, payload)
            /\ id_writes' = id_writes + 1
            /\ id_last' = << [accepted |-> TRUE, before |-> id_msg_id] >>
    /\ UNCHANGED << id_linked, notId >>

\* BLEManager.connect succeeds
id_connect ==
    /\ ~id_linked
    /\ id_linked' = TRUE
    /\ UNCHANGED << id_msg_id, id_writes, id_written, id_last, notId >>

\* BLEManager.disconnect, or the link drops
id_disconnect ==
    /\ id_linked
    /\ id_linked' = FALSE
    /\ UNCHANGED << id_msg_id, id_writes, id_written, id_last, notId >>

IdNext ==
    \/ \E payload \in IdPayloads : id_send_command(GET_DEVICE_MODEL, payload)
    \/ id_connect
    \/ id_disconnect

MoreInit ==
    /\ DispInit /\ ParseInit /\ StoreInit /\ ReconInit /\ BruteInit /\ RenewInit
    /\ JournalInit /\ PathInit /\ BusInit /\ LoopInit /\ IdInit

ExtInit ==
    CodecInit /\ OnInit /\ PushInit /\ AuthInit /\ HistInit /\ MoreInit
Init == BleInit /\ MqInit /\ ExtInit
vars == << bleVars, mqVars, extVars >>

\* Every task of the controller: two WebSocket clients and the refresh task.
Next == (\E p \in Procs : TaskNext(p)) \/ EnvNext
Spec == Init /\ [][Next]_vars

\* One WebSocket client and the refresh task.
NextSolo == (\E p \in {"c1", RefreshTask} : TaskNext(p)) \/ EnvNext
SpecSolo == Init /\ [][NextSolo]_vars

\* The gateway backend.
SpecMq == Init /\ [][MqNext]_vars

\* The frame codec.
SpecCodec == Init /\ [][CodecNext]_vars

\* The gateway records and the timeout scanner.
SpecOnline == Init /\ [][OnNext]_vars

\* The push channel.
SpecPush == Init /\ [][PushNext]_vars

\* The API key, for every configured value.
InitAuth ==
    /\ BleInit /\ MqInit /\ CodecInit /\ OnInit /\ PushInit /\ HistInit
    /\ MoreInit
    /\ api_key \in ApiKeys
    /\ requests = <<>>
SpecAuth == InitAuth /\ [][AuthNext]_vars

\* The history store.
SpecHist == Init /\ [][HistNext]_vars

\* The request dispatchers.
SpecDisp == Init /\ [][DispNext]_vars

\* The payload parsers.
SpecParse == Init /\ [][ParseNext]_vars

\* The gateway records in full.
SpecStore == Init /\ [][StoreNext]_vars

\* The reconnect counter.
SpecRecon == Init /\ [][ReconNext]_vars

\* The token enumeration.
SpecBrute == Init /\ [][BruteNext]_vars

\* Token renewal: the client keeps issuing commands, the clock advances and
\* the refresh task wakes when its sleep is over.
SpecRenew ==
    /\ Init /\ [][RenewNext]_vars
    /\ WF_vars(\E w \in WrongTokenResponses : renew_execute(w))
    /\ WF_vars(renew_tick)
    /\ WF_vars(renew_auto_refresh)

\* The events of the gateway backend.
SpecJournal == Init /\ [][JournalNext]_vars

\* The paths that set the token.
SpecPath == Init /\ [][PathNext]_vars

\* The bus adapter.
SpecBus == Init /\ [][BusNext]_vars

\* The dispatch loop of the bus adapter.
SpecLoop == Init /\ [][LoopNext]_vars

\* The message ID of the session.
SpecId == Init /\ [][IdNext]_vars

\* The token enumeration with its awaits completing: send_command waits at
\* most its timeout and asyncio.sleep(0.02) ends, so a started enumeration
\* takes its next step.
SpecBruteLive ==
    /\ SpecBrute
    /\ WF_vars(bruteforce_loop)
    /\ WF_vars(bruteforce_check)
    /\ WF_vars(bruteforce_next)

(***************************************************************************)
(* Claims.                                                                 *)
(***************************************************************************)
InSendCommand(p) == pc[p] \in {"sc_wait", "sc_ready"}
Writes(p) == pc[p] = "sc_entry" /\ pc'[p] = "sc_wait"
Dials(p) == pc[p] = "rc_sleep" /\ pc'[p] = "cn_scan"
InBruteforce(p) ==
    \/ pc[p] \in {"bf_loop", "bf_check", "bf_sleep"}
    \/ pc[p] \in {"sc_entry", "sc_wait", "sc_ready"} /\ Head(stack[p]) = "bf_check"
EnsureReturns(p) ==
    /\ pc[p] \in {"en_entry", "en_return"}
    /\ Len(stack'[p]) < Len(stack[p])

\* C1: while one send_command waits for its response, a second send_command
\* on the session is rejected: it writes no frame, takes no msg_id and leaves
\* the response slot of the first alone.
C1_SecondSendRejected ==
    [][\A p \in Procs :
         (pc[p] = "sc_entry" /\ \E q \in Procs \ {p} : InSendCommand(q))
         => /\ ~Writes(p)
            /\ msg_id' = msg_id
            /\ last_response' = last_response
            /\ response_event' = response_event]_vars

\* C2: a frame returned by send_command is a response (service < 0) whose
\* msg_id is the msg_id of the request that send_command wrote.
C2_ReturnsOwnResponse ==
    [][\A p \in Procs :
         (pc[p] = "sc_ready" /\ pc'[p] # "sc_ready" /\ loc'[p].rresp # <<>>)
         => /\ loc'[p].rresp[1].service < 0
            /\ loc'[p].rresp[1].msg_id = loc[p].sent]_vars

\* C3: ensure_token entered with no cached and no stored token on a connected
\* session, and returning on a connected session, returns the token the
\* device accepts, which is then the in-memory and the stored token.
C3_EnsureFindsDeviceToken ==
    [][\A p \in Procs :
         (EnsureReturns(p) /\ loc'[p].en_pre = "connected" /\ loc'[p].probe
            /\ connected)
         => /\ loc'[p].rtoken = devToken
            /\ token' = devToken
            /\ storage'[device] = devToken]_vars

\* C4: at most one task is inside the enumeration of bruteforce_token.
C4_OneAcquisition == Cardinality({p \in Procs : InBruteforce(p)}) <= 1

\* C5: ensure_token entered with a token that is not due for refresh returns
\* that token at once: no call, no frame, token and store as they were.
C5_SecondEnsureCached ==
    [][\A p \in Procs :
         (pc[p] = "en_entry" /\ token # None /\ last_refresh # None
            /\ (now - last_refresh) <= refresh_interval)
         => /\ EnsureReturns(p)
            /\ loc'[p].rtoken = token
            /\ writes' = writes
            /\ UNCHANGED << token, last_refresh, storage >>]_vars

C5_Witness ==
    \E p \in Clients :
        /\ pc[p] = "ex_token"
        /\ loc[p].en_pre = "fresh"
        /\ loc[p].rtoken = token
        /\ writes > 0 /\ token = devToken /\ storage[device] = token

\* C6: a step that clears the in-memory token, and every step of disconnect,
\* leaves the token store as it was; ensure_token entered without a token
\* while the store holds one for the device returns the stored token at
\* once and writes no frame; an entry leaves the store only when
\* clear_token_storage empties it.
C6_InvalidateKeepsStore ==
    [][/\ (token # None /\ token' = None) => storage' = storage
       /\ \A p \in Procs :
            /\ pc[p] \in {"dc_entry", "dc_wait"} => storage' = storage
            /\ (pc[p] = "en_entry" /\ token = None /\ device # NoDevice
                  /\ storage[device] # None)
               => /\ EnsureReturns(p)
                  /\ loc'[p].rtoken = storage[device]
                  /\ token' = storage[device]
                  /\ writes' = writes
                  /\ storage' = storage
       /\ (\E k \in StorageKeys : storage[k] # None /\ storage'[k] = None)
          => /\ \A k \in StorageKeys : storage'[k] = None
             /\ ops' = ops + 1 /\ pc' = pc /\ UNCHANGED tokVars]_vars

C6_Witness ==
    \E p \in Clients :
        /\ pc[p] \in {"ex_token", "h_reply"}
        /\ loc[p].en_pre = "stored"
        /\ ~loc[p].probe
        /\ loc[p].rtoken = storage[device]
        /\ token = storage[device]

\* C7: a frame that a command handler writes through execute carries the
\* current token as its first payload byte unless its service is
\* ASSOCIATE_DEVICE; that one carries no token, and serving it never enters
\* ensure_token.
C7_TokenPrefix ==
    [][\A p \in Clients :
         /\ (Writes(p) /\ loc[p].op \in CommandHandlers /\ Head(stack[p]) # "bf_check")
            => IF needs_token(loc[p].sc_service)
               THEN loc[p].sc_payload # <<>> /\ loc[p].sc_payload[1] = token
               ELSE loc[p].sc_payload = <<>>
         /\ loc[p].op = "associate_device" => pc'[p] # "en_entry"]_vars

\* C8: a device command requested while the session is not connected writes
\* no frame, makes no connection attempt and is answered with a failure.
C8_NotConnectedRejected ==
    [][\A p \in Clients :
         (loc[p].op \in CommandHandlers /\ loc[p].nc)
         => /\ ~Writes(p)
            /\ ~Dials(p)
            /\ pc[p] = "h_reply" => loc[p].rresp = <<>>]_vars

\* C9: a command is resolved by, and only by, the first cmd_response with
\* its cmd_id handled while it waits: the result carries the command's
\* cmd_id, a waiting command is resolved by the message with its cmd_id and
\* by no other, and a command that is resolved, timed out or failed never
\* changes again.
C9_Correlation ==
    /\ [](\A c \in 1..Len(cmd) :
            cmd[c].state = "resolved" => cmd[c].result.cmd_id = c)
    /\ [][\A c \in 1..Len(cmd) :
            /\ cmd[c].state # "waiting" => cmd'[c] = cmd[c]
            /\ cmd[c].state = "waiting" =>
                 IF handled' # handled /\ msg'.cmd_id = c
                 THEN cmd'[c].state = "resolved" /\ cmd'[c].result = msg'
                 ELSE cmd'[c].state \in {"waiting", "timeout"}]_vars

C9_Witness ==
    \E c, d \in 1..Len(cmd) :
        /\ cmd[c].state = "timeout" /\ msg.cmd_id = c /\ c \notin _command_responses
        /\ d > c /\ cmd[d].state = "waiting"

\* C10: the pending-response map holds only the cmd_ids of commands whose
\* caller is still waiting.
C10_MapOnlyWaiting ==
    \A c \in _command_responses : cmd[c].state = "waiting"

\* C11: when the last message of a gateway is a heartbeat that left it
\* connected, more than gateway_timeout_seconds have passed since and the
\* scanner is not due, the gateway is listed with online = false and exactly
\* one timeout event has been pushed for it.
C11_TimeoutReported ==
    \A g \in Gateways :
        LET gateway == _gateways[g] IN
        (/\ gateway.known /\ gateway.last_msg = "heartbeat"
         /\ gateway.connected \/ gateway.timeouts > 0
         /\ gnow - gateway.last_heartbeat > gateway_timeout_seconds
         /\ gnow < scan_at)
        => ~list_gateways_online(g) /\ gateway.timeouts = 1

\* C12: the first message handled for a gateway after the scanner has
\* flipped it offline, whatever its type, leaves the gateway listed with
\* online = true.
C12_OnlineAgain ==
    [][\A g \in Gateways :
         (_gateways[g].timeouts > 0 /\ _gateways'[g].timeouts = 0)
         => (gnow' - _gateways'[g].last_heartbeat < gateway_timeout_seconds)]_vars

\* C13: every client is sent the events of one gateway in the order in
\* which on_gateway_update was called for them.
C13_PushOrder ==
    \A w \in 1..Len(websocket_clients) :
        \A a, b \in 1..Len(inbox[w]) :
            (a < b /\ broadcasts[inbox[w][a]].gateway = broadcasts[inbox[w][b]].gateway)
            => inbox[w][a] < inbox[w][b]

\* C14: parse_response of an undamaged build_message frame gives back the
\* version, msg_id, service, sequence, flags and payload it was built from
\* and size = len(payload); the size field of the frame is big-endian for
\* version 0 and little-endian for every other version.
C14_RoundTrip ==
    (built # <<>> /\ damage = "none") =>
        LET b == built[1]
            n == Len(b.payload)
        IN  /\ IF b.version = 0
               THEN frame[6] * 65536 + frame[7] * 256 + frame[8] = n
               ELSE frame[6] + frame[7] * 256 + frame[8] * 65536 = n
            /\ parsed # <<>> =>
                 /\ parsed[1].success
                 /\ parsed[1].version = b.version
                 /\ parsed[1].msg_id = b.msg_id
                 /\ parsed[1].service = b.service
                 /\ parsed[1].sequence = b.sequence
                 /\ parsed[1].flags = b.flags
                 /\ parsed[1].size = n
                 /\ parsed[1].payload = b.payload

\* C15: parse_response gives an error, not a frame, for input whose ninth
\* byte is not the low byte of the sum of its first eight bytes.
C15_ChecksumEnforced ==
    (parsed # <<>> /\ Len(frame) >= 9
       /\ frame[9] # SumBytes(SubSeq(frame, 1, 8)) % 256)
    => ~parsed[1].success

\* C16: a frame parse_response returns as decoded has len(payload) = size
\* and comes from input of at least 9 + size bytes.
C16_PayloadLength ==
    (parsed # <<>> /\ parsed[1].success) =>
        /\ Len(frame) >= 9
        /\ Len(parsed[1].payload) = parsed[1].size
        /\ Len(frame) >= 9 + parsed[1].size

\* C17: build_message returns the header version, msg_id, service, sequence,
\* flags, three size bytes holding len(payload) and the checksum, the sum of
\* the eight bytes before it modulo 256, followed by the payload; for
\* version 0, msg_id 1, service 0x1c, sequence 0, flags ACK and payload 2F
\* it returns 00 01 1c 00 02 00 00 01 20 2F.
C17_FrameLayout ==
    /\ build_message(0, 1, GET_DEVICE_MODEL, 0, ACK, <<47>>)
         = << 0, 1, 28, 0, 2, 0, 0, 1, 32, 47 >>
    /\ (built # <<>> /\ damage = "none") =>
         LET b == built[1]
             n == Len(b.payload)
         IN  /\ Len(frame) = 9 + n
             /\ frame[1] = b.version /\ frame[2] = b.msg_id
             /\ frame[3] = b.service % 256
             /\ frame[4] = b.sequence /\ frame[5] = b.flags
             /\ \/ frame[6] * 65536 + frame[7] * 256 + frame[8] = n
                \/ frame[6] + frame[7] * 256 + frame[8] * 65536 = n
             /\ frame[9] = SumBytes(SubSeq(frame, 1, 8)) % 256
             /\ SubSeq(frame, 10, Len(frame)) = b.payload

C17_Witness ==
    /\ built # <<>> /\ damage = "none"
    /\ built[1] = [version |-> 0, msg_id |-> 1, service |-> GET_DEVICE_MODEL,
                   sequence |-> 0, flags |-> ACK, payload |-> <<47>>]
    /\ frame = << 0, 1, 28, 0, 2, 0, 0, 1, 32, 47 >>

\* C18: with an API key configured, a request that does not present that
\* key is given no gateway data and issues no command, on the HTTP channel
\* and on the WebSocket channel; with no key configured every request is
\* admitted.
C18_KeyRequired ==
    \A i \in 1..Len(requests) :
        /\ (api_key # "" /\ requests[i].key # api_key)
           => ~requests[i].data /\ ~requests[i].command
        /\ api_key = "" => requests[i].admitted

\* C19: get_power_stats(G, hours) is computed from exactly the rows of G
\* inserted less than hours hours ago.
C19_StatsWindow ==
    stats # <<>> =>
        LET q == stats[1]
            rows == { r \in port_history :
                        /\ r.gateway_id = q.gateway_id
                        /\ (hclock - r.at) * HoursPerTick < q.period_hours }
        IN  stats[1] = power_stats(q.gateway_id, q.period_hours, rows)

\* C20: rows leave port_history and gateway_events only in a cleanup run;
\* a row a cleanup run deletes is at least retention_days old; after a
\* cleanup run no row older than retention_days is left.
C20_CleanupExact ==
    [][LET gone == (port_history \ port_history')
                     \cup (gateway_events \ gateway_events')
           left == port_history' \cup gateway_events'
           age(r) == hclock - r.at
       IN  /\ gone # {} => cleanups' = cleanups + 1
           /\ \A r \in gone : age(r) >= retention_days * TicksPerDay
           /\ cleanups' = cleanups + 1 =>
                \A r \in left : age(r) <= retention_days * TicksPerDay]_vars

\* the registry of an app
Registry(app) ==
    IF app = "controller" THEN ACTION_HANDLERS ELSE StationHandlers

\* C21: every request served on the client channel of either app got
\* exactly one reply before the next request was served; a request naming
\* an action that is not in the app's registry got an error reply, no
\* handler ran, no frame was written and connection and token are as before.
C21_OneReplyPerRequest ==
    \A i \in 1..Len(served) :
        LET r == served[i] IN
        /\ Len(r.replies) = 1
        /\ (r.action # "" /\ r.action \notin DOMAIN Registry(r.app)) =>
                /\ r.replies[1].type = "error"
                /\ ~r.invoked
                /\ r.frames = <<>>
                /\ r.after = r.before

\* C22: on a connected session holding a token, every action of the
\* controller's registry whose handler sends a command names a member of
\* ServiceCommand, writes the frame of that service and ends without an
\* exception.
C22_ActionsSendCommand ==
    \A i \in 1..Len(served) :
        LET r == served[i] IN
        (/\ r.app = "controller"
         /\ r.action \in DOMAIN ACTION_HANDLERS
         /\ ACTION_HANDLERS[r.action] # ""
         /\ r.before[1] /\ r.before[2] # None) =>
            /\ ACTION_HANDLERS[r.action] \in DOMAIN ServiceCommand
            /\ ~r.raised
            /\ r.frames = << ServiceCommand[ACTION_HANDLERS[r.action]] >>
            /\ r.replies = << [type |-> "response", action |-> r.action] >>


\* C23: parse_port_statistics, given an optional 0x00 status byte
\* followed by N 8-byte chunks, returns N records with port_id 0..N-1,
\* record i holding chunk i's voltage_raw / 8 V, amperage_raw / 32 A and
\* their product, each to the precision the record keeps.
C23_PortRecords ==
    (called # <<>> /\ called[1].fn = "parse_port_statistics") =>
        LET chunks == called[1].chunks IN
        /\ Len(returned) = Len(chunks)
        /\ \A i \in 1..Len(chunks) :
            LET a == chunks[i][2]
                v == chunks[i][3]
                r == returned[i]
            IN  /\ r.port_id = i - 1
                /\ 8 * r.voltage - 100 * v \in -4..4
                /\ 32 * r.current - 1000 * a \in -16..16
                /\ 256 * r.power - 100 * v * a \in -128..128

\* the fields of a PD-status result with the bytes they are decoded from:
\* offset of the first byte, number of bytes, decoded values
PdFields(r) ==
    << [off |-> 0, width |-> 2, val |-> << r.battery.vid >>],
       [off |-> 2, width |-> 2, val |-> << r.battery.pid >>],
       [off |-> 4, width |-> 2, val |-> << r.battery.design_capacity >>],
       [off |-> 6, width |-> 2, val |-> << r.battery.last_full_capacity >>],
       [off |-> 8, width |-> 2, val |-> << r.battery.present_capacity >>],
       [off |-> 10, width |-> 1,
        val |-> << r.battery.present, r.battery.status_name,
                   r.cable.is_active, r.cable.epr_mode_capable,
                   r.cable.phy_type, r.cable.length >>],
       [off |-> 11, width |-> 1,
        val |-> << r.cable.max_voltage, r.cable.max_current >>],
       [off |-> 12, width |-> 1, val |-> << r.cable.usb_speed >>],
       [off |-> 14, width |-> 2, val |-> << r.cable.vid >>],
       [off |-> 16, width |-> 2, val |-> << r.cable.pid >>],
       [off |-> 33, width |-> 1, val |-> << r.status.temperature >>],
       [off |-> 34, width |-> 2, val |-> << r.operating.current >>],
       [off |-> 35, width |-> 1, val |-> << r.operating.pd_revision >>],
       [off |-> 36, width |-> 1,
        val |-> << r.operating.pps_charging_supported,
                   r.operating.has_battery, r.operating.has_emarker >>],
       [off |-> 37, width |-> 2, val |-> << r.operating.voltage >>] >>

\* C24: parse_port_pd_status_response succeeds on every prefix of at least
\* 2 bytes of a full PD-status payload; a field whose first byte lies beyond
\* the prefix reads as from zero bytes, a field whose bytes all lie inside
\* it reads as from the full payload, and the power is the product of the
\* current and the voltage read.
C24_LengthTolerant ==
    (/\ called # <<>>
     /\ called[1].fn = "parse_port_pd_status_response"
     /\ Len(called[1].payload) >= 2) =>
        LET n == Len(called[1].payload)
            got == PdFields(returned)
            all == PdFields(parse_port_pd_status_response(called[1].full))
            zero == PdFields(parse_port_pd_status_response(PdZeros))
        IN  /\ returned.error = ""
            /\ \A k \in 1..Len(got) :
                /\ got[k].off >= n => got[k].val = zero[k].val
                /\ got[k].off + got[k].width <= n => got[k].val = all[k].val
            /\ returned.operating.power =
                 RoundHalfEven(returned.operating.current
                                 * returned.operating.voltage, 100)

\* a 12-byte payload was parsed: battery VID and PID populated, operating
\* current, voltage and temperature zero
C24_Witness ==
    /\ called # <<>>
    /\ called[1].fn = "parse_port_pd_status_response"
    /\ Len(called[1].payload) = 12
    /\ returned.error = ""
    /\ returned.battery.vid # 0 /\ returned.battery.pid # 0
    /\ returned.operating.current = 0 /\ returned.operating.voltage = 0
    /\ returned.status.temperature = 0

\* C25: decode_protocols(encode_protocols(p)) names the 24 protocols and
\* reports a protocol enabled exactly when p maps it to true;
\* encode_protocols(decode_protocols(b)) is b for a 3-byte word b.
C25_ProtocolRoundTrip ==
    called # <<>> =>
        /\ called[1].fn = "decode_protocols(encode_protocols)" =>
            LET p == called[1].protocols IN
            /\ DOMAIN returned = DOMAIN PROTOCOL_NAMES
            /\ Cardinality(DOMAIN returned) = 24
            /\ \A name \in DOMAIN returned :
                returned[name] = (name \in DOMAIN p /\ p[name])
        /\ called[1].fn = "encode_protocols(decode_protocols)" =>
            returned = called[1].word

\* the dict of test_protocol_encoding was encoded to 08 00 01 and decoded
C25_Witness ==
    /\ called # <<>>
    /\ called[1].fn = "decode_protocols(encode_protocols)"
    /\ called[1].protocols = [name \in {"PD", "QC3.0", "PE"} |-> name # "PE"]
    /\ called[1].word = << 8, 0, 1 >>
    /\ returned["PD"] /\ returned["QC3.0"] /\ ~returned["PE"]

\* the sum of power_w over stored port records
RECURSIVE StoredPower(_)
StoredPower(ports) ==
    IF DOMAIN ports = {} THEN 0
    ELSE LET p == CHOOSE x \in DOMAIN ports : TRUE
         IN  ports[p].power_w
               + StoredPower([q \in DOMAIN ports \ {p} |-> ports[q]])

\* C26: after an update_ports call the gateway's stored ports are exactly
\* the ports of the message, total_power is the sum of power_w over the
\* stored ports, active_ports counts the stored ports with current_ma > 0,
\* connected is true and the call's event, of kind ports, was notified.
C26_PortsReplaced ==
    (upd # <<>> /\ upd[1].fn = "update_ports") =>
        LET gw == gw_store[upd[1].gateway_id]
            ports_data == upd[1].message
        IN  /\ DOMAIN gw.ports =
                 { ports_data[i]["port_id"] : i \in DOMAIN ports_data }
            /\ \A i \in DOMAIN ports_data :
                LET port == gw.ports[ports_data[i]["port_id"]]
                IN  /\ port.current_ma = ports_data[i]["current"]
                    /\ port.power_w = ports_data[i]["power"]
            /\ gw.total_power = StoredPower(gw.ports)
            /\ gw.active_ports =
                 Cardinality({ p \in DOMAIN gw.ports :
                                 gw.ports[p].current_ma > 0 })
            /\ gw.connected
            /\ notified[Len(notified)].gateway_id = upd[1].gateway_id
            /\ notified[Len(notified)].event_type = "ports"

\* the key of a message that carries a field of the record
MessageKey(field) == IF field = "uptime_seconds" THEN "uptime" ELSE field

\* C27: update_device_info, update_heartbeat and update_status on a known
\* gateway set the fields the message carries (and last_heartbeat, for a
\* heartbeat); every other field, connected included, is as it was.
C27_MergeOnlyPresent ==
    (/\ upd # <<>>
     /\ upd[1].fn \in {"update_device_info", "update_heartbeat",
                       "update_status"}
     /\ upd[1].known) =>
        LET gw == gw_store[upd[1].gateway_id]
            message == upd[1].message
        IN  \A field \in DOMAIN gw :
                IF MessageKey(field) \in DOMAIN message
                THEN gw[field] = message[MessageKey(field)]
                ELSE IF field = "last_heartbeat"
                          /\ upd[1].fn = "update_heartbeat"
                THEN gw[field] = upd[1].at
                ELSE gw[field] = upd[1].before[field]

\* C28: the reconnect counter never exceeds max_reconnect_attempts and
\* auto_reconnect never fails more than that many connection attempts in a
\* row; a call of auto_reconnect that finds the counter at the bound
\* returns false without touching the session; the counter goes back to
\* zero only in a step in which a connection succeeded or auto_reconnect
\* returned true.
C28_BoundedReconnects ==
    [][/\ rc_attempts' <= max_reconnect_attempts
       /\ rc_failed' <= max_reconnect_attempts
       /\ (rc_calls' # rc_calls /\ rc_last'.fn = "auto_reconnect"
             /\ rc_attempts >= max_reconnect_attempts) =>
            /\ rc_last'.returned = "false"
            /\ UNCHANGED << rc_attempts, rc_linked, rc_device, rc_pc >>
       /\ (rc_attempts' = 0 /\ rc_attempts > 0) =>
            (rc_last'.dial = "ok" \/ rc_last'.returned = "true")]_vars


\* C29: one execute call runs at most one reconnect-and-retry cycle.  It
\* calls auto_reconnect only after its first send, so at most once; when
\* that call has the session connected again and a token obtained, whatever
\* its value in 0..255 and whether it came from the storage or from the
\* enumeration, auto_reconnect returns true and execute sends the command a
\* second time; after the second send execute returns, so the command frame
\* is written at most twice, and once only when auto_reconnect is switched
\* off.
C29_ReconnectAndRetry ==
    [][\A p \in Clients :
         /\ pc[p] # "rc_entry" /\ pc'[p] = "rc_entry"
              => pc[p] = "ex_sent"
         /\ pc[p] = "rc_connected" /\ pc'[p] = "ex_reconnected"
              /\ connected' /\ token' # None
              => loc'[p].rbool
         /\ pc[p] = "rc_token" /\ pc'[p] = "ex_reconnected"
              /\ connected' /\ loc[p].rtoken # None
              => loc'[p].rbool
         /\ pc[p] = "ex_reconnected" /\ pc'[p] # "ex_reconnected"
              => IF loc[p].rbool
                 THEN pc'[p] \in {"en_entry", "sc_entry"}
                 ELSE Len(stack'[p]) < Len(stack[p])
         /\ pc[p] = "ex_resent" /\ pc'[p] # "ex_resent"
              => Len(stack'[p]) < Len(stack[p])
         /\ pc[p] = "rc_entry" /\ pc'[p] # "rc_entry" /\ ~_auto_reconnect_enabled
              => pc'[p] = "ex_reconnected" /\ ~loc'[p].rbool
    ]_vars


\* C30: an enumeration against a connected device that accepts no token
\* writes the 256 probes 0, 1, ..., 255 in increasing order, each once, and
\* then ends returning None; none of its steps changes the token in memory
\* or the token in the storage.
AllProbes == [k \in 1..TokenRange |-> k - 1]
Enumerating == bt_pc # "idle"
C30_ExhaustiveEnumeration ==
    /\ [][/\ Enumerating /\ bt_device = None
               => bt_token' = bt_token /\ bt_storage' = bt_storage
          /\ Enumerating /\ ~Enumerating' /\ bt_device = None /\ bt_linked
               => bt_probes = AllProbes /\ bt_returned' = << None >>
         ]_vars
    /\ (Enumerating ~> ~Enumerating)
C30_Witness ==
    /\ ~Enumerating /\ bt_device = None /\ bt_linked
    /\ bt_returned = << None >> /\ bt_probes = AllProbes
    /\ bt_token = 0 /\ bt_storage = 0

\* C31: once the token persisted for the device is not the one the device
\* accepts, and the client keeps issuing commands, the manager eventually
\* runs an enumeration after which the token in memory and the persisted
\* token are the device's.
StaleStored == mgr.stored # None /\ mgr.stored # lock
C31_StaleTokenRenewed ==
    StaleStored ~> (enumerated /\ mgr.token = lock /\ mgr.stored = lock)

\* C32: between two consecutive heartbeats of a gateway at most one timeout
\* event is pushed for it, whatever ports, device_info and status messages
\* arrive from it in between.
C32_OneTimeoutPerSilence ==
    \A g \in Gateways : _gateways[g].since_heartbeat <= 1

\* C33: every timeout event pushed by the timeout scanner and every status
\* event of a gateway has its row in gateway_events, with the gateway_id and
\* the kind, so the events query returns every timeout that was pushed.
Occurrences(events, e) == Cardinality({ i \in 1..Len(events) : events[i] = e })
C33_EventsRecorded ==
    \A g \in Gateways, kind \in {"status", "timeout"} :
        Occurrences(jr_pushed, Event(g, kind)) = Occurrences(jr_rows, Event(g, kind))

\* C34: a pending command published to a gateway is resolved only by a
\* cmd_response received on that gateway's topic; a cmd_response on another
\* gateway's topic never resolves it, even with the same cmd_id.
C34_ResolvedBySameGateway ==
    \A c \in 1..Len(cmd) :
        cmd[c].state = "resolved" => cmd[c].result.gateway = cmd[c].gateway

\* C35: when an enumeration ends, by success, after the last probe or by
\* the cancellation of its task, the acquiring guard is cleared; and while
\* an enumeration is running the guard is set.
C35_GuardFollowsEnumeration ==
    /\ [][\A p \in Procs :
            InBruteforce(p) /\ ~InBruteforce(p)' => ~_acquiring']_vars
    /\ [](\A p \in Procs : InBruteforce(p) => _acquiring)

\* C36: the token in memory is absent or an integer in 0..255, and every
\* token in the token store is in 0..255, whichever path set it.
C36_TokenIsByte ==
    /\ tp_token \in {None} \cup Byte
    /\ tp_stored \in {None} \cup Byte

\* C37: enable_protocol and disable_protocol write the feature word that
\* get_port_config reports for the same device response, with the bit of
\* the named protocol set (cleared) and every other bit as it was.
WithBit(word, position, on) ==
    [b \in 1..3 |->
        IF b = position[1] + 1
        THEN word[b] - Bit(word[b], position[2]) * 2^position[2]
                     + (IF on THEN 2^position[2] ELSE 0)
        ELSE word[b]]
C37_OnlyNamedBitChanges ==
    called # <<>> /\ called[1].fn = "set_protocol" =>
        SubSeq(returned, 2, 4) =
            WithBit(parse_port_config_response(called[1].payload).power_features,
                    PROTOCOL_NAMES[called[1].protocol], called[1].enabled)

\* C38: the client handle, reported as mqtt_connected, is set exactly while
\* the broker connection is established; after the connection is lost and
\* during the reconnect wait it is unset, and send_command then fails
\* without registering a pending entry.
C38_HandleFollowsConnection ==
    /\ [](mqtt_connected <=> bus_broker)
    /\ [](bus_pc = "sleeping" => ~mqtt_connected)
    /\ [][~bus_broker => bus_pending' = bus_pending]_vars

\* Which payloads are not a JSON object of the expected shape: text that is
\* not JSON, a JSON array, and on the ports topic an object whose "ports" is
\* not a list.
NotExpectedShape(msg_type, payload) ==
    \/ payload.json # "object"
    \/ msg_type = "ports" /\ payload.ports = "number"

\* C39: an inbound message whose payload is not a JSON object of the
\* expected shape is discarded: the registry is left as it was (no record
\* created, no field and no heartbeat time modified), no event is emitted,
\* and the loop has taken the message and is ready for the next.
C39_MalformedDiscarded ==
    [][(lp_handled' = lp_handled + 1
          /\ NotExpectedShape(lp_last'[1].msg_type, lp_last'[1].payload))
       => /\ lp_gateways' = lp_gateways
          /\ lp_events' = lp_events]_vars

\* a send_command call has just returned or reached its write
IdCalled(accepted) ==
    /\ id_last' # << >> /\ id_last'[1].accepted = accepted
    /\ id_last' # id_last \/ id_writes' # id_writes

\* C40: the message ID is always in 0..255; a send_command accepted on a
\* connected session writes a frame carrying the previous ID plus one, 255
\* being followed by 0; a send_command rejected because the session is not
\* connected writes nothing and leaves the ID as it was.
C40_MsgIdModulo256 ==
    /\ [](id_msg_id \in 0..255)
    /\ [][IdCalled(TRUE) =>
            /\ id_msg_id' = IF id_msg_id = 255 THEN 0 ELSE id_msg_id + 1
            /\ id_written'[2] = id_msg_id'
            /\ id_writes' = id_writes + 1]_vars
    /\ [][IdCalled(FALSE) =>
            /\ id_msg_id' = id_msg_id
            /\ id_writes' = id_writes
            /\ id_written' = id_written]_vars

\* the ID has gone from 255 to 0 on the 256th write, and a call on the
\* session then not connected has been rejected
C40_Witness ==
    /\ id_writes = 256 /\ id_msg_id = 0 /\ id_written[2] = 0
    /\ ~id_linked
    /\ id_last = << [accepted |-> FALSE, before |-> 0] >>

====
